---- MODULE Spec2Model ----
(***************************************************************************)
(* Peer session layer of the game: SignalingClient (signaling.ts),         *)
(* PeerConnection (peer.ts), PeerManager (peerManager) and the signaling   *)
(* server (server.js).                                                     *)
(*                                                                         *)
(* A client is one record holding the fields of its SignalingClient and of *)
(* its PeerManager.  Every method and event handler of the source is an    *)
(* operator from client record to client record; the messages a handler    *)
(* sends to the server are appended to field out, the events it emits to   *)
(* the application to field ev.  Actions apply the operators.              *)
(***************************************************************************)
EXTENDS Integers, Sequences, FiniteSets, TLC

VARIABLES
    c,          \* SpecSig, SpecPM: the single client under test
    syncClose,  \* build: TRUE when SimplePeer.destroy() emits 'close' inline
    cl,         \* SpecMesh: the clients of the mesh, cl[a] a client record
    srv,        \* SpecMesh: the signaling server, [users, rooms]
    net,        \* SpecMesh: messages in flight, [up, down] per client
    g           \* history: what the properties need to remember of the past

vars == <<c, syncClose, cl, srv, net, g>>

Null == "null"
NoTimer == 0         \* reconnectTimer = null

\* ---------------------------------------------------------------- bounds
MaxTimers == 2          \* timer handles that may be pending at once
MaxSocketGen == 1       \* socket objects a client may create after its first
MaxLinks == 3           \* PeerConnection objects alive at once in a client
MaxNet == 1             \* messages in flight per direction and client
MaxSignals == 1         \* negotiation messages one link produces

\* ------------------------------------------------------- program constants
maxReconnectAttempts == 15
reconnectDelay == 1000
maxDelay == 30000


Rooms == {"r1", "r2"}
RemoteIds == {"x", "y"}
SelfId == "me"
TimerIds == 1..MaxTimers
LinkIds == 1..MaxLinks

EmptyMap == [k \in {} |-> Null]
Remove(f, k) == [x \in DOMAIN f \ {k} |-> f[x]]
Put(f, k, v) == [x \in DOMAIN f \cup {k} |-> IF x = k THEN v ELSE f[x]]
Min(a, b) == IF a <= b THEN a ELSE b
SetMin(S) == CHOOSE x \in S : \A y \in S : x <= y

RECURSIVE Pow(_, _)
Pow(b, e) == IF e = 0 THEN 1 ELSE b * Pow(b, e - 1)

\* Math.pow(1.5, e) in units of 1/PowScale, an integer for e <= 14
PowScale == Pow(2, maxReconnectAttempts - 1)
Pow15(e) == Pow(3, e) * Pow(2, maxReconnectAttempts - 1 - e)

\* Delays are kept in units of 1/DelayScale ms: reconnectDelay = 8 * 125, so
\* reconnectDelay * 1.5^e = (reconnectDelay / 8) * Pow15(e) / DelayScale ms
\* without overflow of 32-bit integers.
DelayScale == PowScale \div 8

\* ------------------------------------------------------------ client record
NewClient ==
    [ socketGen |-> 0, connected |-> FALSE, sid |-> Null, mgr |-> "closed",
      reconnectTimer |-> NoTimer, reconnectAttempts |-> 0,
      isReconnecting |-> FALSE, currentRoom |-> Null,
      timers |-> EmptyMap,
      peers |-> EmptyMap, links |-> EmptyMap, roomId |-> Null,
      op |-> "new", arg |-> Null, out |-> <<>>, ev |-> <<>>, sched |-> <<>> ]

\* start of a task: forget what the previous step sent and emitted
Begin(k, op, arg) ==
    [k EXCEPT !.op = op, !.arg = arg, !.out = <<>>, !.ev = <<>>, !.sched = <<>>]
Emit(k, m) == [k EXCEPT !.out = Append(@, m)]
Fire(k, e) == [k EXCEPT !.ev = Append(@, e)]

\* ------------------------------------------------------- PeerConnection
\* a close handler that emits but leaves the link in place
PM_onPeerClose_keep(k, l) == Fire(k, [e |-> "peerDisconnect", id |-> k.links[l].peer])

\* 'close' handler that createPeer registers on a link
PM_onPeerClose(k, l) ==
    LET p == k.links[l].peer
    IN  Fire([k EXCEPT !.peers = IF p \in DOMAIN @ THEN Remove(@, p) ELSE @,
                       !.links = Remove(@, l)],
             [e |-> "peerDisconnect", id |-> p])

\* PeerConnection.close(): SimplePeer.destroy() does nothing on an instance
\* that is already being destroyed; 'close' is emitted inline or deferred
\* depending on the build.
PC_close(k, l) ==
    IF k.links[l].st # "live" THEN k
    ELSE IF syncClose THEN PM_onPeerClose(k, l)
    ELSE [k EXCEPT !.links[l].st = "destroying"]

FreeLinks(k) == LinkIds \ DOMAIN k.links

\* a createPeer that makes every link an initiator
createPeer_asInitiator(k, p, initiator) ==
    LET l == SetMin(FreeLinks(k))
    IN  [k EXCEPT !.links = Put(@, l, [peer |-> p, initiator |-> TRUE,
                                       st |-> "live", got |-> FALSE,
                                       sig |-> 0, conn |-> FALSE, wire |-> <<>>]),
                  !.peers = Put(@, p, l)]

createPeer(k, p, initiator) ==
    LET l == SetMin(FreeLinks(k))
    IN  [k EXCEPT !.links = Put(@, l, [peer |-> p, initiator |-> initiator,
                                       st |-> "live", got |-> FALSE,
                                       sig |-> 0, conn |-> FALSE, wire |-> <<>>]),
                  !.peers = Put(@, p, l)]

closePeer(k, p) == IF p \in DOMAIN k.peers THEN PC_close(k, k.peers[p]) ELSE k

RECURSIVE closeEach(_, _)
closeEach(k, ps) ==
    IF ps = {} THEN k
    ELSE LET p == CHOOSE q \in ps : TRUE
         IN  closeEach(closePeer(k, p), ps \ {p})

closeAllPeers(k) == closeEach(k, DOMAIN k.peers)

\* ------------------------------------------------ PeerManager listeners
PM_onConnect(k) == Fire(k, [e |-> "clientConnected"])

\* the disconnect listener without the teardown of the links
PM_onDisconnect_keepLinks(k) == Fire(k, [e |-> "clientDisconnected"])

PM_onDisconnect(k) == closeAllPeers(Fire(k, [e |-> "clientDisconnected"]))

PM_onReconnectFailed(k) == Fire(k, [e |-> "clientReconnectFailed"])

\* ------------------------------------------------------- SignalingClient
SC_id(k) == IF k.connected THEN k.sid ELSE Null

SC_joinRoom(k, r) ==
    LET k1 == [k EXCEPT !.currentRoom = r]
    IN  IF k1.connected THEN Emit(k1, [t |-> "join_room", room |-> r]) ELSE k1

SC_leaveRoom(k, r) ==
    LET k1 == [k EXCEPT !.currentRoom = Null]
    IN  IF k1.connected THEN Emit(k1, [t |-> "leave_room", room |-> r]) ELSE k1

sendSignal(k, target) ==
    IF k.connected
    THEN Emit(k, [t |-> "signal", target |-> target, signal |-> "sdp"]) ELSE k

\* socket.connect() of socket.io-client: nothing on a connected socket,
\* otherwise the manager starts (or keeps on) opening the transport
socket_connect(k) == IF k.connected THEN k ELSE [k EXCEPT !.mgr = "connecting"]

\* initializeSocket(): a new socket object with its own manager
initializeSocket(k) ==
    [k EXCEPT !.socketGen = @ + 1, !.connected = FALSE, !.sid = Null, !.mgr = "closed"]

SC_connect(k) ==
    socket_connect([k EXCEPT !.reconnectAttempts = 0, !.isReconnecting = FALSE])

\* the delay without its 30 s cap
ReconnectDelayOf_uncapped(n) == (reconnectDelay \div 8) * Pow15(n - 1)

\* delay of custom reconnect attempt n, in 1/DelayScale ms
ReconnectDelayOf(n) ==
    Min((reconnectDelay \div 8) * Pow15(n - 1), maxDelay * DelayScale)

FreeTimers(k) == TimerIds \ (DOMAIN k.timers \cup {k.reconnectTimer})

RECURSIVE attemptReconnect(_), socket_disconnect(_), onSocketDisconnect(_)

\* attemptReconnect with the cap test off by one (>= for >)
attemptReconnect_capAtMax(k) ==
    IF k.isReconnecting THEN k
    ELSE LET k1 == [k EXCEPT !.isReconnecting = TRUE, !.reconnectAttempts = @ + 1]
         IN  IF k1.reconnectAttempts >= maxReconnectAttempts
             THEN SC_connect(initializeSocket(socket_disconnect(k1)))
             ELSE LET t == SetMin(FreeTimers(k1))
                      delay == ReconnectDelayOf(k1.reconnectAttempts)
                  IN  [k1 EXCEPT !.reconnectTimer = t,
                                 !.timers = Put(@, t, delay),
                                 !.sched = Append(@, delay)]

attemptReconnect(k) ==
    IF k.isReconnecting THEN k
    ELSE LET k1 == [k EXCEPT !.isReconnecting = TRUE, !.reconnectAttempts = @ + 1]
         IN  IF k1.reconnectAttempts > maxReconnectAttempts
             THEN SC_connect(initializeSocket(socket_disconnect(k1)))
             ELSE LET t == SetMin(FreeTimers(k1))
                      delay == ReconnectDelayOf(k1.reconnectAttempts)
                  IN  [k1 EXCEPT !.reconnectTimer = t,
                                 !.timers = Put(@, t, delay),
                                 !.sched = Append(@, delay)]

\* 'disconnect' handler registered on the socket
onSocketDisconnect(k) ==
    LET k1 == PM_onDisconnect(k)
    IN  IF ~k1.isReconnecting /\ ~k1.connected THEN attemptReconnect(k1) ELSE k1

\* socket.disconnect() of socket.io-client: closes the manager and, when the
\* socket was connected, emits 'disconnect' before it returns
socket_disconnect(k) ==
    IF k.connected
    THEN onSocketDisconnect([k EXCEPT !.connected = FALSE, !.sid = Null, !.mgr = "closed"])
    ELSE [k EXCEPT !.mgr = "closed"]

clearReconnectTimer(k) ==
    IF k.reconnectTimer # NoTimer
    THEN [k EXCEPT !.timers = IF k.reconnectTimer \in DOMAIN @ THEN Remove(@, k.reconnectTimer) ELSE @,
                   !.reconnectTimer = NoTimer]
    ELSE k

\* the 'connect' handler without the rejoin of the remembered room
onSocketConnect_noRejoin(k) ==
    PM_onConnect(clearReconnectTimer([k EXCEPT !.reconnectAttempts = 0,
                                               !.isReconnecting = FALSE]))

\* 'connect' handler registered on the socket
onSocketConnect(k) ==
    LET k1 == clearReconnectTimer([k EXCEPT !.reconnectAttempts = 0, !.isReconnecting = FALSE])
        k2 == IF k1.currentRoom # Null THEN SC_joinRoom(k1, k1.currentRoom) ELSE k1
    IN  PM_onConnect(k2)

\* 'reconnect_failed' handler registered on the socket's manager
onReconnectFailed(k) == attemptReconnect(PM_onReconnectFailed(k))

\* callback of the timer attemptReconnect schedules
onReconnectTimer(k, t) ==
    LET k1 == [k EXCEPT !.timers = Remove(@, t)]
        k2 == IF ~k1.connected THEN socket_connect(k1) ELSE k1
    IN  [k2 EXCEPT !.isReconnecting = FALSE]

SC_disconnect(k) ==
    LET k1 == clearReconnectTimer(k)
    IN  socket_disconnect([k1 EXCEPT !.isReconnecting = FALSE, !.currentRoom = Null])

\* a step that may enter attemptReconnect needs a free timer handle and, past
\* the attempt cap, a free socket generation
CanReconnect(k) ==
    /\ FreeTimers(k) # {}
    /\ k.reconnectAttempts >= maxReconnectAttempts => k.socketGen < MaxSocketGen

\* deferred 'close' events are microtasks: they run before the next task
NoMicrotask(k) == \A l \in DOMAIN k.links : k.links[l].st # "destroying"


\* ------------------------------------------------ PeerManager handlers
RECURSIVE linkEach(_, _)
linkEach(k, us) ==
    IF us = {} THEN k
    ELSE LET u == CHOOSE q \in us : TRUE
             k1 == IF u # SC_id(k) /\ u \notin DOMAIN k.peers
                   THEN createPeer(k, u, FALSE) ELSE k
         IN  linkEach(k1, us \ {u})

PM_onRoomUsers(k, us) ==
    LET k1 == linkEach(k, us)
    IN  IF k1.roomId # Null
        THEN Fire(k1, [e |-> "roomJoined", id |-> k1.roomId])
        ELSE k1

\* the user_joined listener without the test for an existing link
PM_onUserJoined_noHasCheck(k, u) ==
    LET k1 == Fire(k, [e |-> "userJoined", id |-> u])
    IN  IF u # SC_id(k1) THEN createPeer(k1, u, TRUE) ELSE k1

PM_onUserJoined(k, u) ==
    LET k1 == Fire(k, [e |-> "userJoined", id |-> u])
    IN  IF u # SC_id(k1) /\ u \notin DOMAIN k1.peers
        THEN createPeer(k1, u, TRUE) ELSE k1

\* a user_left listener that only reports
PM_onUserLeft_emitOnly(k, u) == Fire(k, [e |-> "userLeft", id |-> u])

PM_onUserLeft(k, u) == closePeer(Fire(k, [e |-> "userLeft", id |-> u]), u)

PM_onUserDisconnected(k, u) == closePeer(Fire(k, [e |-> "userLeft", id |-> u]), u)

\* PeerConnection.signal(): SimplePeer.signal() feeds the negotiation of a
\* link and is ignored by an instance that is being destroyed
PC_signal(k, l) ==
    IF k.links[l].st = "live" THEN [k EXCEPT !.links[l].got = TRUE] ELSE k

\* the signal listener without handing the payload to the link
PM_onSignal_noFeed(k, u) ==
    IF u \notin DOMAIN k.peers THEN createPeer(k, u, FALSE) ELSE k

PM_onSignal(k, u) ==
    LET k1 == IF u \notin DOMAIN k.peers THEN createPeer(k, u, FALSE) ELSE k
    IN  PC_signal(k1, k1.peers[u])

\* SimplePeer emits negotiation data on its own when it is the initiator
\* (offer, candidates) and, otherwise, once it was given the remote offer;
\* a negotiation produces finitely many messages
MaySignal(k, l) ==
    /\ k.links[l].st = "live"
    /\ k.links[l].initiator \/ k.links[l].got
    /\ k.links[l].sig < MaxSignals

\* SimplePeer emits 'signal': one more message of the negotiation
PC_onSignal(k, l) == [k EXCEPT !.links[l].sig = @ + 1]

\* 'signal' handler that createPeer registers on a link
PM_onPeerSignal(k, l) == sendSignal(PC_onSignal(k, l), k.links[l].peer)

\* -------------------------------------------------------- data channel
\* payloads of the application: an object and a number that is not finite
Types == {"ping"}
Payloads == {"{n:1}", "NaN"}

\* JSON.stringify of the envelope {type, payload}: the text, as the pair of
\* its two members; a number that is not finite is written as null
JSON_stringify(d) == <<d.type, IF d.payload = "NaN" THEN "null" ELSE d.payload>>

\* a text on the data channel that is not JSON
Malformed == <<"{">>

\* JSON.parse throws on a text that is not JSON
Parses(s) == Len(s) = 2

\* JSON.parse of the text of an envelope
JSON_parse(s) == [type |-> s[1], payload |-> s[2]]

\* PeerConnection.send(): the text goes on the wire of a connected link
PC_send(k, l, type, payload) ==
    IF ~k.links[l].conn THEN k
    ELSE [k EXCEPT !.links[l].wire =
              Append(@, JSON_stringify([type |-> type, payload |-> payload]))]

\* peer.send on every connected link of the peers ps
RECURSIVE sendEach(_, _, _, _)
sendEach(k, ps, type, payload) ==
    IF ps = {} THEN k
    ELSE LET p == CHOOSE q \in ps : TRUE
         IN  sendEach(IF k.links[k.peers[p]].conn
                      THEN PC_send(k, k.peers[p], type, payload) ELSE k,
                      ps \ {p}, type, payload)

\* a broadcast that keeps the message for the links still connecting
PM_broadcast_queued(k, type, payload) ==
    [k EXCEPT !.links = [l \in DOMAIN @ |->
        [@[l] EXCEPT !.wire =
            Append(@, JSON_stringify([type |-> type, payload |-> payload]))]]]

\* PeerManager.broadcast()
PM_broadcast(k, type, payload) == sendEach(k, DOMAIN k.peers, type, payload)

\* a targeted send that falls back to the other links
PM_send_any(k, p, type, payload) ==
    IF p \in DOMAIN k.peers /\ k.links[k.peers[p]].conn
    THEN PC_send(k, k.peers[p], type, payload)
    ELSE sendEach(k, DOMAIN k.peers, type, payload)

PM_send(k, p, type, payload) ==
    IF p \in DOMAIN k.peers /\ k.links[k.peers[p]].conn
    THEN PC_send(k, k.peers[p], type, payload)
    ELSE k

\* 'connect' handler that createPeer registers on a link; SimplePeer sets
\* connected before it emits the event
PM_onPeerConnect(k, l) ==
    Fire([k EXCEPT !.links[l].conn = TRUE],
         [e |-> "peerConnect", id |-> k.links[l].peer])

\* 'data' handlers of PeerConnection and of createPeer
PM_onPeerData_fatal(k, l, text) ==
    IF Parses(text)
    THEN Fire(k, [e |-> "data", id |-> k.links[l].peer, data |-> JSON_parse(text)])
    ELSE Fire(k, [e |-> "error", id |-> k.links[l].peer])

\* the parse sits in a try block whose catch only logs
PM_onPeerData(k, l, text) ==
    IF Parses(text)
    THEN Fire(k, [e |-> "data", id |-> k.links[l].peer, data |-> JSON_parse(text)])
    ELSE k

\* ----------------------------------------------------- PeerManager API
PM_connect(k) == SC_connect(k)

PM_leaveRoom(k) ==
    IF k.roomId # Null
    THEN Fire(closeAllPeers([SC_leaveRoom(k, k.roomId) EXCEPT !.roomId = Null]),
              [e |-> "roomLeft"])
    ELSE k

PM_disconnect(k) ==
    SC_disconnect(IF k.roomId # Null THEN PM_leaveRoom(k) ELSE closeAllPeers(k))

PM_joinRoom(k, r) ==
    LET k1 == IF k.roomId # Null THEN PM_leaveRoom(k) ELSE k
    IN  SC_joinRoom([k1 EXCEPT !.roomId = r], r)

getPeerIds(k) == DOMAIN k.peers

\* links a handler may have to create
CanCreate(k, n) == Cardinality(FreeLinks(k)) >= n

\* ------------------------------------------------------------- history
\* g.room: room of the latest joinRoom on the SignalingClient, Null after
\*         leaveRoom or disconnect
\* g.owed: peers that had a link when the signaling socket dropped and for
\*         which no peerDisconnect was emitted since
\* g.delay: delay of the previous backoff timer of the running series, 0 when
\*         the attempt counter was reset
Closed(k) == {k.ev[i].id : i \in {j \in 1..Len(k.ev) : k.ev[j].e = "peerDisconnect"}}

GhostOf(k) ==
    [ owed  |-> IF k.op = "drop" THEN DOMAIN c.peers \ Closed(k)
                ELSE g.owed \ Closed(k),
      room  |-> IF k.op \in {"SC.joinRoom"} THEN k.arg
                ELSE IF k.op \in {"SC.leaveRoom", "SC.disconnect"} THEN Null
                ELSE g.room,
      delay |-> IF k.sched # <<>> THEN k.sched[Len(k.sched)]
                ELSE IF k.reconnectAttempts = 0 THEN 0
                ELSE g.delay ]

NewGhost == [room |-> Null, delay |-> 0, owed |-> {}]

\* --------------------------------------- actions on the single client c
Frame ==
    /\ g' = GhostOf(c')
    /\ UNCHANGED <<syncClose, cl, srv, net>>

\* the server accepted the connection: socket 'connect' event
SocketConnect ==
    /\ c.mgr = "connecting" /\ ~c.connected
    /\ NoMicrotask(c)
    /\ c' = onSocketConnect([Begin(c, "connect", Null) EXCEPT
                                 !.connected = TRUE, !.sid = SelfId, !.mgr = "open"])
    /\ Frame

\* the transport went away: socket 'disconnect' event, the manager starts its
\* own reconnection
SocketDrop ==
    /\ c.connected
    /\ NoMicrotask(c)
    /\ CanReconnect(c)
    /\ c' = onSocketDisconnect([Begin(c, "drop", Null) EXCEPT
                                    !.connected = FALSE, !.sid = Null, !.mgr = "connecting"])
    /\ Frame

\* the manager gave up after reconnectionAttempts tries
ReconnectFailed ==
    /\ c.mgr = "connecting" /\ ~c.connected
    /\ NoMicrotask(c)
    /\ CanReconnect(c)
    /\ c' = onReconnectFailed([Begin(c, "reconnect_failed", Null) EXCEPT !.mgr = "closed"])
    /\ Frame

TimerFire ==
    \E t \in DOMAIN c.timers :
        /\ NoMicrotask(c)
        /\ c' = onReconnectTimer(Begin(c, "timer", Null), t)
        /\ Frame

Sig_connect ==
    /\ c' = SC_connect(Begin(c, "SC.connect", Null))
    /\ Frame

Sig_disconnect ==
    /\ CanReconnect(c)
    /\ c' = SC_disconnect(Begin(c, "SC.disconnect", Null))
    /\ Frame

Sig_joinRoom ==
    \E r \in Rooms :
        /\ c' = SC_joinRoom(Begin(c, "SC.joinRoom", r), r)
        /\ Frame

Sig_leaveRoom ==
    \E r \in Rooms :
        /\ c' = SC_leaveRoom(Begin(c, "SC.leaveRoom", r), r)
        /\ Frame

InitSig ==
    /\ c = NewClient
    /\ g = NewGhost
    /\ syncClose \in BOOLEAN
    /\ cl = EmptyMap /\ srv = EmptyMap /\ net = EmptyMap

NextSig ==
    \/ SocketConnect
    \/ SocketDrop
    \/ ReconnectFailed
    \/ TimerFire
    \/ Sig_connect
    \/ Sig_disconnect
    \/ Sig_joinRoom
    \/ Sig_leaveRoom

SpecSig == InitSig /\ [][NextSig]_vars

\* ------------------------------------- actions of the PeerManager client
Api_connect ==
    /\ c' = PM_connect(Begin(c, "PM.connect", Null))
    /\ Frame

Api_disconnect ==
    /\ CanReconnect(c)
    /\ c' = PM_disconnect(Begin(c, "PM.disconnect", Null))
    /\ Frame

Api_joinRoom ==
    \E r \in Rooms :
        /\ c' = PM_joinRoom(Begin(c, "PM.joinRoom", r), r)
        /\ Frame

Api_leaveRoom ==
    /\ c' = PM_leaveRoom(Begin(c, "PM.leaveRoom", Null))
    /\ Frame

\* inbound server events, delivered while the socket is connected
RoomUsers ==
    \E us \in SUBSET RemoteIds :
        /\ c.connected
        /\ NoMicrotask(c)
        /\ CanCreate(c, Cardinality(us))
        /\ c' = PM_onRoomUsers(Begin(c, "room_users", Null), us \cup {SelfId})
        /\ Frame

UserJoined ==
    \E u \in RemoteIds :
        /\ c.connected
        /\ NoMicrotask(c)
        /\ CanCreate(c, 1)
        /\ c' = PM_onUserJoined(Begin(c, "user_joined", u), u)
        /\ Frame

UserLeft ==
    \E u \in RemoteIds :
        /\ c.connected
        /\ NoMicrotask(c)
        /\ c' = PM_onUserLeft(Begin(c, "user_left", u), u)
        /\ Frame

UserDisconnected ==
    \E u \in RemoteIds :
        /\ c.connected
        /\ NoMicrotask(c)
        /\ c' = PM_onUserDisconnected(Begin(c, "user_disconnected", u), u)
        /\ Frame

Signal ==
    \E u \in RemoteIds :
        /\ c.connected
        /\ NoMicrotask(c)
        /\ CanCreate(c, 1)
        /\ c' = PM_onSignal(Begin(c, "signal", u), u)
        /\ Frame

\* a live link produces negotiation data for its remote side
LinkSignal ==
    \E l \in DOMAIN c.links :
        /\ MaySignal(c, l)
        /\ NoMicrotask(c)
        /\ c' = PM_onPeerSignal(Begin(c, "peer_signal", c.links[l].peer), l)
        /\ Frame

\* the deferred 'close' event of a destroyed link
DeliverClose ==
    \E l \in DOMAIN c.links :
        /\ c.links[l].st = "destroying"
        /\ c' = PM_onPeerClose(Begin(c, "peer_close", c.links[l].peer), l)
        /\ Frame

InitPM == InitSig

NextPM ==
    \/ SocketConnect
    \/ SocketDrop
    \/ TimerFire
    \/ Api_connect
    \/ Api_disconnect
    \/ Api_joinRoom
    \/ Api_leaveRoom
    \/ RoomUsers
    \/ UserJoined
    \/ UserLeft
    \/ UserDisconnected
    \/ Signal
    \/ LinkSignal
    \/ DeliverClose

SpecPM == InitPM /\ [][NextPM]_vars

\* the microtask queue always drains
SpecPMFair == SpecPM /\ WF_vars(DeliverClose)

\* ------------------------------------------------------ signaling server
\* srv.users[s]  users[socket.id], with the client that owns the connection
\* srv.rooms[r]  rooms[roomId], the member array
\* srv.sio[r]    the sockets Socket.IO holds in room r (socket.join / leave)
Clients == {"A", "B"}
MeshRooms == {"r1"}
SidOf(a) == a

NewServer ==
    [ users |-> EmptyMap, rooms |-> EmptyMap, sio |-> [r \in MeshRooms |-> {}] ]

InSeq(q, x) == \E i \in 1..Len(q) : q[i] = x
Without(q, x) == SelectSeq(q, LAMBDA y : y # x)

\* a server step: the new server state and the messages it sends, as a set
\* of <<socket id, message>>
\* Socket.IO puts every socket in a room named by its own id; sio tracks
\* that room where the socket id is one of the room names considered
srv_onConnection(sv, s, a) ==
    [sv EXCEPT !.users = Put(@, s, [room |-> Null, cli |-> a]),
               !.sio = IF s \in DOMAIN @ THEN [@ EXCEPT ![s] = @ \cup {s}] ELSE @]

\* join_room without the user_joined notification to the room
srv_joinRoom_silent(sv, s, r) ==
    LET members == IF r \in DOMAIN sv.rooms THEN sv.rooms[r] ELSE <<>>
        roomUsers == IF InSeq(members, s) THEN members ELSE Append(members, s)
        sv1 == [sv EXCEPT !.sio[r] = @ \cup {s},
                          !.users[s].room = r,
                          !.rooms = Put(@, r, roomUsers)]
    IN  [ sv |-> sv1,
          send |-> {<<s, [t |-> "room_users", users |-> roomUsers]>>} ]

srv_joinRoom(sv, s, r) ==
    LET members == IF r \in DOMAIN sv.rooms THEN sv.rooms[r] ELSE <<>>
        roomUsers == IF InSeq(members, s) THEN members ELSE Append(members, s)
        sv1 == [sv EXCEPT !.sio[r] = @ \cup {s},
                          !.users[s].room = r,
                          !.rooms = Put(@, r, roomUsers)]
    IN  [ sv |-> sv1,
          send |-> {<<t, [t |-> "user_joined", id |-> s]>> : t \in sv.sio[r] \ {s}}
                   \cup {<<s, [t |-> "room_users", users |-> roomUsers]>>} ]

handleLeaveRoom(sv, s, r) ==
    LET sv1 == [sv EXCEPT !.sio[r] = @ \ {s},
                          !.users = IF s \in DOMAIN @
                                    THEN [@ EXCEPT ![s].room = Null] ELSE @]
    IN  IF r \in DOMAIN sv1.rooms /\ InSeq(sv1.rooms[r], s)
        THEN LET rest == Without(sv1.rooms[r], s)
             IN  [ sv |-> [sv1 EXCEPT !.rooms = IF rest = <<>> THEN Remove(@, r)
                                                ELSE Put(@, r, rest)],
                   send |-> {<<t, [t |-> "user_left", id |-> s]>> : t \in sv1.sio[r]} ]
        ELSE [sv |-> sv1, send |-> {}]

srv_leaveRoom(sv, s, r) ==
    LET roomId == IF r # Null THEN r
                  ELSE IF s \in DOMAIN sv.users THEN sv.users[s].room ELSE Null
    IN  IF roomId # Null THEN handleLeaveRoom(sv, s, roomId)
        ELSE [sv |-> sv, send |-> {}]

\* the sockets that io.to(x) addresses: those in the room named x
InRoom(sv, x) == IF x \in DOMAIN sv.sio THEN sv.sio[x] ELSE {x}

\* a signal relay that answers the sender instead of the target
srv_signal_echo(sv, s, m) ==
    [ sv |-> sv,
      send |-> IF m.target \in DOMAIN sv.users
               THEN {<<s, [t |-> "signal", id |-> s, signal |-> m.signal]>>} ELSE {} ]

srv_signal(sv, s, m) ==
    [ sv |-> sv,
      send |-> IF m.target \in DOMAIN sv.users
               THEN {<<t, [t |-> "signal", id |-> s, signal |-> m.signal]>> :
                        t \in InRoom(sv, m.target)}
               ELSE {} ]

srv_handle(sv, s, m) ==
    CASE m.t = "join_room" -> srv_joinRoom(sv, s, m.room)
      [] m.t = "leave_room" -> srv_leaveRoom(sv, s, m.room)
      [] m.t = "signal" -> srv_signal(sv, s, m)

\* the listener a client runs for a server message
cl_handle(k, m) ==
    CASE m.t = "room_users" ->
             PM_onRoomUsers(Begin(k, "room_users", Null), {m.users[i] : i \in 1..Len(m.users)})
      [] m.t = "user_joined" -> PM_onUserJoined(Begin(k, "user_joined", m.id), m.id)
      [] m.t = "user_left" -> PM_onUserLeft(Begin(k, "user_left", m.id), m.id)
      [] m.t = "signal" -> PM_onSignal(Begin(k, "signal", m.id), m.id)

\* ---------------------------------------------------- actions of the mesh
MeshFrame == UNCHANGED <<c, syncClose, g>>

\* client a took the step to k; the step outputs of the others are forgotten
Acted(a, k) == [b \in Clients |-> IF b = a THEN k ELSE Begin(cl[b], "idle", Null)]

\* what client a sent in its step goes to the server in order
Sent(a, k) == [net EXCEPT !.up[a] = @ \o k.out]
RoomFor(a, k) == Len(net.up[a]) + Len(k.out) <= MaxNet

M_connect ==
    \E a \in Clients :
        /\ cl[a].mgr = "closed"
        /\ cl' = Acted(a, PM_connect(Begin(cl[a], "PM.connect", Null)))
        /\ UNCHANGED <<srv, net>>
        /\ MeshFrame

\* the server accepts the connection and the socket reports 'connect'
M_socketConnect ==
    \E a \in Clients :
        LET k == onSocketConnect([Begin(cl[a], "connect", Null) EXCEPT
                                      !.connected = TRUE, !.sid = SidOf(a), !.mgr = "open"])
        IN  /\ cl[a].mgr = "connecting" /\ ~cl[a].connected
            /\ NoMicrotask(cl[a])
            /\ RoomFor(a, k)
            /\ cl' = Acted(a, k)
            /\ srv' = srv_onConnection(srv, SidOf(a), a)
            /\ net' = Sent(a, k)
            /\ MeshFrame

M_joinRoom ==
    \E a \in Clients, r \in MeshRooms :
        LET k == PM_joinRoom(Begin(cl[a], "PM.joinRoom", r), r)
        IN  /\ RoomFor(a, k)
            /\ cl' = Acted(a, k)
            /\ net' = Sent(a, k)
            /\ UNCHANGED srv
            /\ MeshFrame

M_leaveRoom ==
    \E a \in Clients :
        LET k == PM_leaveRoom(Begin(cl[a], "PM.leaveRoom", Null))
        IN  /\ cl[a].roomId # Null
            /\ RoomFor(a, k)
            /\ cl' = Acted(a, k)
            /\ net' = Sent(a, k)
            /\ UNCHANGED srv
            /\ MeshFrame

\* the server handles the oldest message of client a and relays
M_server ==
    \E a \in Clients :
        /\ net.up[a] # <<>>
        /\ LET r == srv_handle(srv, cl[a].sid, Head(net.up[a]))
               to(b) == {x \in r.send : r.sv.users[x[1]].cli = b}
               msgs(b) == IF to(b) = {} THEN <<>> ELSE <<(CHOOSE x \in to(b) : TRUE)[2]>>
           IN  /\ \A b \in Clients : Len(net.down[b]) + Len(msgs(b)) <= MaxNet
               /\ srv' = r.sv
               /\ net' = [up |-> [net.up EXCEPT ![a] = Tail(@)],
                          down |-> [b \in Clients |-> net.down[b] \o msgs(b)]]
        /\ cl' = [b \in Clients |-> Begin(cl[b], "idle", Null)]
        /\ MeshFrame

\* client a receives its oldest server message
M_deliver ==
    \E a \in Clients :
        /\ net.down[a] # <<>>
        /\ CanCreate(cl[a], Cardinality(Clients))
        /\ LET k == cl_handle(cl[a], Head(net.down[a]))
           IN  /\ cl' = Acted(a, k)
               /\ net' = [net EXCEPT !.down[a] = Tail(@)]
        /\ UNCHANGED srv
        /\ MeshFrame

M_linkSignal ==
    \E a \in Clients :
        \E l \in DOMAIN cl[a].links :
            LET k == PM_onPeerSignal(Begin(cl[a], "peer_signal", cl[a].links[l].peer), l)
            IN  /\ MaySignal(cl[a], l)
                /\ k.out # <<>>
                /\ RoomFor(a, k)
                /\ cl' = Acted(a, k)
                /\ net' = Sent(a, k)
                /\ UNCHANGED srv
                /\ MeshFrame

M_deliverClose ==
    \E a \in Clients :
        \E l \in DOMAIN cl[a].links :
            /\ cl[a].links[l].st = "destroying"
            /\ cl' = Acted(a, PM_onPeerClose(Begin(cl[a], "peer_close", cl[a].links[l].peer), l))
            /\ UNCHANGED <<srv, net>>
            /\ MeshFrame

InitMesh ==
    /\ cl = [a \in Clients |-> NewClient]
    /\ srv = NewServer
    /\ net = [up |-> [a \in Clients |-> <<>>], down |-> [a \in Clients |-> <<>>]]
    /\ syncClose \in BOOLEAN
    /\ c = NewClient
    /\ g = NewGhost

NextMesh ==
    \/ M_connect
    \/ M_socketConnect
    \/ M_joinRoom
    \/ M_leaveRoom
    \/ M_server
    \/ M_deliver
    \/ M_linkSignal
    \/ M_deliverClose

SpecMesh == InitMesh /\ [][NextMesh]_vars

\* --------------------------------------------- joining and direct links
\* In the specifications below g.msg is the envelope of the data message
\* that is on a wire, as the sender passed it to send(), in a sequence.
MaxData == 1            \* data messages in flight at once

\* the link that client b holds for client a
HasLinkTo(b, a) == cl[a].connected /\ cl[a].sid \in DOMAIN cl[b].peers
LinkTo(b, a) == cl[b].links[cl[b].peers[cl[a].sid]]

\* the remote end of link l of client a: the client that owns the id
RemoteOf(a, l) ==
    {b \in Clients \ {a} : cl[b].connected /\ cl[b].sid = cl[a].links[l].peer}

\* SimplePeer reports 'connect' once both ends were given the description
\* of the other
CanConnect(a, l) ==
    /\ cl[a].links[l].st = "live" /\ ~cl[a].links[l].conn /\ cl[a].links[l].got
    /\ \E b \in RemoteOf(a, l) :
           /\ HasLinkTo(b, a)
           /\ LinkTo(b, a).st = "live" /\ LinkTo(b, a).got

J_joinRoom ==
    \E a \in Clients, r \in MeshRooms :
        LET k == PM_joinRoom(Begin(cl[a], "PM.joinRoom", r), r)
        IN  /\ cl[a].roomId = Null
            /\ RoomFor(a, k)
            /\ cl' = Acted(a, k)
            /\ net' = Sent(a, k)
            /\ UNCHANGED <<srv, c, syncClose, g>>

J_linkConnect ==
    \E a \in Clients :
        \E l \in DOMAIN cl[a].links :
            /\ CanConnect(a, l)
            /\ cl' = Acted(a, PM_onPeerConnect(Begin(cl[a], "peer_connect", cl[a].links[l].peer), l))
            /\ UNCHANGED <<srv, net, c, syncClose, g>>

\* the application sends to a peer it has a connected link for
J_send ==
    \E a \in Clients, t \in Types, v \in Payloads :
        \E p \in DOMAIN cl[a].peers :
            LET k == PM_send(Begin(cl[a], "PM.send", p), p, t, v)
                l == cl[a].peers[p]
            IN  /\ g.msg = <<>>
                /\ cl[a].links[l].conn
                /\ Len(cl[a].links[l].wire) < MaxData
                /\ cl' = Acted(a, k)
                /\ g' = IF k.links[l].wire # cl[a].links[l].wire
                        THEN [g EXCEPT !.msg = <<[from |-> cl[a].sid, to |-> p,
                                                 type |-> t, payload |-> v]>>]
                        ELSE g
                /\ UNCHANGED <<srv, net, c, syncClose>>

\* the oldest message on the wire of a link reaches the remote end
J_data ==
    \E a \in Clients :
        \E l \in DOMAIN cl[a].links :
            \E b \in RemoteOf(a, l) :
                /\ cl[a].links[l].wire # <<>>
                /\ HasLinkTo(b, a)
                /\ LinkTo(b, a).st = "live" /\ LinkTo(b, a).conn
                /\ LET k == PM_onPeerData(Begin(cl[b], "peer_data", cl[a].sid),
                                          cl[b].peers[cl[a].sid],
                                          Head(cl[a].links[l].wire))
                   IN  cl' = [Acted(b, k) EXCEPT ![a].links[l].wire = Tail(@)]
                /\ g' = [g EXCEPT !.msg = <<>>]
                /\ UNCHANGED <<srv, net, c, syncClose>>

InitJoin ==
    /\ cl = [a \in Clients |-> NewClient]
    /\ srv = NewServer
    /\ net = [up |-> [a \in Clients |-> <<>>], down |-> [a \in Clients |-> <<>>]]
    /\ syncClose \in BOOLEAN
    /\ c = NewClient
    /\ g = [msg |-> <<>>]

NextJoin ==
    \/ M_connect
    \/ M_socketConnect
    \/ J_joinRoom
    \/ M_server
    \/ M_deliver
    \/ M_linkSignal
    \/ J_linkConnect
    \/ J_send
    \/ J_data

\* the server and every client keep handling what they were sent, links
\* keep negotiating and the network delivers
FairJoin ==
    /\ WF_vars(M_server)
    /\ WF_vars(M_deliver)
    /\ WF_vars(M_linkSignal)
    /\ WF_vars(J_linkConnect)
    /\ WF_vars(J_data)

SpecJoin == InitJoin /\ [][NextJoin]_vars /\ FairJoin

\* ------------------------------------------- socket drops and reconnects
\* In SpecDrop g.conns[a] is the number of socket ids the server has issued
\* to client a and g.drops the number of socket drops so far.
MaxDrops == 1           \* socket drops in one behaviour

\* socket.id of the n-th connection of client a: a new id per connection
SocketId(a, n) ==
    IF a = "A" THEN <<"A", "A2", "A3">>[n] ELSE <<"B", "B2", "B3">>[n]

\* no connected client holds socket id s
Gone(s) == \A b \in Clients : ~(cl[b].connected /\ cl[b].sid = s)

\* 'disconnect' handler of the server for socket s
srv_onDisconnect(sv, s) ==
    LET r == IF sv.users[s].room # Null
             THEN handleLeaveRoom(sv, s, sv.users[s].room)
             ELSE [sv |-> sv, send |-> {}]
    IN  [sv |-> [r.sv EXCEPT !.users = Remove(@, s),
                             !.sio = [x \in DOMAIN @ |-> @[x] \ {s}]],
         send |-> r.send]

\* what the server sends reaches the client that holds the socket, and
\* nobody when the socket is gone
Routed(send, b) ==
    LET to == {x \in send : cl[b].connected /\ x[1] = cl[b].sid}
    IN  IF to = {} THEN <<>> ELSE <<(CHOOSE x \in to : TRUE)[2]>>

\* links the listener for message m has to create
LinksFor(k, m) ==
    CASE m.t = "room_users" ->
             Cardinality({m.users[i] : i \in 1..Len(m.users)}
                             \ (DOMAIN k.peers \cup {SC_id(k)}))
      [] m.t \in {"user_joined", "signal"} ->
             IF m.id \in DOMAIN k.peers \cup {SC_id(k)} THEN 0 ELSE 1
      [] OTHER -> 0

\* the server accepts a connection under a new socket id
D_socketConnect ==
    \E a \in Clients :
        LET s == SocketId(a, g.conns[a] + 1)
            k == onSocketConnect([Begin(cl[a], "connect", Null) EXCEPT
                                      !.connected = TRUE, !.sid = s, !.mgr = "open"])
        IN  /\ cl[a].mgr = "connecting" /\ ~cl[a].connected
            /\ NoMicrotask(cl[a])
            /\ RoomFor(a, k)
            /\ cl' = Acted(a, k)
            /\ srv' = srv_onConnection(srv, s, a)
            /\ net' = Sent(a, k)
            /\ g' = [g EXCEPT !.conns[a] = @ + 1]
            /\ UNCHANGED <<c, syncClose>>

\* The clients run the same code and either may join first: the one whose
\* socket drops is fixed.
Dropper == "B"
Steady == CHOOSE a \in Clients : a # Dropper

\* the socket of client a drops: the client sees 'disconnect' and its
\* manager starts to reconnect; what was in flight on the socket is lost
D_drop ==
    \E a \in {Dropper} :
        /\ cl[a].connected
        /\ NoMicrotask(cl[a])
        /\ CanReconnect(cl[a])
        /\ g.drops < MaxDrops
        /\ cl' = Acted(a, onSocketDisconnect([Begin(cl[a], "drop", cl[a].sid) EXCEPT
                              !.connected = FALSE, !.sid = Null, !.mgr = "connecting"]))
        /\ net' = [net EXCEPT !.up[a] = <<>>, !.down[a] = <<>>]
        /\ g' = [g EXCEPT !.drops = @ + 1]
        /\ UNCHANGED <<srv, c, syncClose>>

\* the server notices that socket s is gone
D_srvDisconnect ==
    \E s \in DOMAIN srv.users :
        /\ Gone(s)
        /\ LET r == srv_onDisconnect(srv, s)
           IN  /\ \A b \in Clients : Len(net.down[b]) + Len(Routed(r.send, b)) <= MaxNet
               /\ srv' = r.sv
               /\ net' = [net EXCEPT !.down = [b \in Clients |-> @[b] \o Routed(r.send, b)]]
        /\ cl' = [b \in Clients |-> Begin(cl[b], "idle", Null)]
        /\ UNCHANGED <<c, syncClose, g>>

\* the server handles the oldest message of client a and relays
D_server ==
    \E a \in Clients :
        /\ net.up[a] # <<>>
        /\ LET r == srv_handle(srv, cl[a].sid, Head(net.up[a]))
           IN  /\ \A b \in Clients : Len(net.down[b]) + Len(Routed(r.send, b)) <= MaxNet
               /\ srv' = r.sv
               /\ net' = [net EXCEPT !.up[a] = Tail(@),
                                     !.down = [b \in Clients |-> @[b] \o Routed(r.send, b)]]
        /\ cl' = [b \in Clients |-> Begin(cl[b], "idle", Null)]
        /\ UNCHANGED <<c, syncClose, g>>

\* client a receives its oldest server message
D_deliver ==
    \E a \in Clients :
        /\ net.down[a] # <<>>
        /\ NoMicrotask(cl[a])
        /\ CanCreate(cl[a], LinksFor(cl[a], Head(net.down[a])))
        /\ cl' = Acted(a, cl_handle(cl[a], Head(net.down[a])))
        /\ net' = [net EXCEPT !.down[a] = Tail(@)]
        /\ UNCHANGED <<srv, c, syncClose, g>>

\* the backoff timer of client a fires
D_timer ==
    \E a \in Clients :
        \E t \in DOMAIN cl[a].timers :
            /\ NoMicrotask(cl[a])
            /\ cl' = Acted(a, onReconnectTimer(Begin(cl[a], "timer", Null), t))
            /\ UNCHANGED <<srv, net, c, syncClose, g>>

\* a connected link whose remote end was destroyed reports 'close'
D_remoteClose ==
    \E a \in Clients :
        \E l \in DOMAIN cl[a].links :
            /\ cl[a].links[l].st = "live" /\ cl[a].links[l].conn
            /\ NoMicrotask(cl[a])
            /\ \A b \in RemoteOf(a, l) :
                   ~(HasLinkTo(b, a) /\ LinkTo(b, a).st = "live")
            /\ cl' = Acted(a, PM_onPeerClose(Begin(cl[a], "remote_close", cl[a].links[l].peer), l))
            /\ UNCHANGED <<srv, net, c, syncClose, g>>

InitDrop ==
    /\ cl = [a \in Clients |-> NewClient]
    /\ srv = NewServer
    /\ net = [up |-> [a \in Clients |-> <<>>], down |-> [a \in Clients |-> <<>>]]
    /\ syncClose \in BOOLEAN
    /\ c = NewClient
    /\ g = [msg |-> <<>>, conns |-> [a \in Clients |-> 0], drops |-> 0]

NextDrop ==
    \/ M_connect
    \/ D_socketConnect
    \/ J_joinRoom
    \/ D_server
    \/ D_deliver
    \/ M_linkSignal
    \/ J_linkConnect
    \/ M_deliverClose
    \/ D_drop
    \/ D_srvDisconnect
    \/ D_timer
    \/ D_remoteClose

\* as FairJoin; moreover the manager of a dropped socket gets its connection
\* back, the server notices a gone socket, and close events are delivered
FairDrop ==
    /\ WF_vars(D_socketConnect)
    /\ WF_vars(D_server)
    /\ WF_vars(D_srvDisconnect)
    /\ WF_vars(D_deliver)
    /\ WF_vars(M_linkSignal)
    /\ WF_vars(J_linkConnect)
    /\ WF_vars(M_deliverClose)
    /\ WF_vars(D_remoteClose)

SpecDrop == InitDrop /\ [][NextDrop]_vars /\ FairDrop

\* ===================================================== GameNetworkManager
\* Numbers are exact rationals [n, d] in lowest terms with d > 0; times are
\* integers, in ms.
RECURSIVE Gcd(_, _)
Gcd(a, b) == IF b = 0 THEN a ELSE Gcd(b, a % b)
Abs(x) == IF x < 0 THEN -x ELSE x

Rat(n, d) ==
    LET q == Gcd(Abs(n), Abs(d))
        s == IF d < 0 THEN -1 ELSE 1
    IN  [n |-> s * (IF n < 0 THEN -(Abs(n) \div q) ELSE n \div q), d |-> Abs(d) \div q]

R(x) == [n |-> x, d |-> 1]
RAdd(a, b) == Rat(a.n * b.d + b.n * a.d, a.d * b.d)
RSub(a, b) == Rat(a.n * b.d - b.n * a.d, a.d * b.d)
RMul(a, b) == Rat(a.n * b.n, a.d * b.d)
RNeg(a) == [n |-> -a.n, d |-> a.d]
RLess(a, b) == a.n * b.d < b.n * a.d
RAbs(a) == [n |-> Abs(a.n), d |-> a.d]
RMax(a, b) == IF RLess(a, b) THEN b ELSE a
RMin(a, b) == IF RLess(b, a) THEN b ELSE a

\* ------------------------------------------------------- program constants
updateRate == 1000 \div 20
interpolationDelay == 100
bufferWindow == 10000
lerpThreshold == Rat(9995, 10000)

StartTime == 20000      \* Date.now() when the model starts

NewGame ==
    [ now |-> StartTime, adv |-> 0,
      localPlayerId |-> Null, peerClient |-> FALSE, mode |-> "HYBRID",
      playerStates |-> EmptyMap, lastUpdateTime |-> 0,
      updateRate |-> updateRate,
      interpolationBuffer |-> EmptyMap, interpolationDelay |-> interpolationDelay,
      connections |-> EmptyMap, peerOpen |-> FALSE,
      op |-> "new", arg |-> Null, out |-> <<>>, ev |-> <<>> ]

\* start of a task of the game client
GBegin(k, op, arg) == [k EXCEPT !.op = op, !.arg = arg, !.out = <<>>, !.ev = <<>>]

\* -------------------------------------------------------- interpolation
\* a lerp that starts from the end point
lerp_fromEnd(a, b, t) == RAdd(b, RMul(RSub(b, a), t))

lerp(a, b, t) == RAdd(a, RMul(RSub(b, a), t))

\* the slerp without the negation of q2 for a negative dot product
slerpQuaternions_noFlip(q1, q2, t) ==
    LET dot0 == RAdd(RAdd(RMul(q1[1], q2[1]), RMul(q1[2], q2[2])),
                     RAdd(RMul(q1[3], q2[3]), RMul(q1[4], q2[4])))
        dot == RAbs(dot0)
    IN  IF RLess(lerpThreshold, dot)
        THEN [i \in 1..4 |-> lerp(q1[i], q2[i], t)]
        ELSE [i \in 1..4 |-> [s0 |-> <<dot, t>>, a |-> q1[i],
                              s1 |-> <<dot, t>>, b |-> q2[i]]]

\* slerpQuaternions(q1, q2, t).  Below the threshold the factors s0 and s1
\* are functions of dot and t (acos, sin, cos): a component s0*a + s1*b is
\* kept as the term [s0, a, s1, b] with the arguments of the factors.
slerpQuaternions(q1, q2, t) ==
    LET dot0 == RAdd(RAdd(RMul(q1[1], q2[1]), RMul(q1[2], q2[2])),
                     RAdd(RMul(q1[3], q2[3]), RMul(q1[4], q2[4])))
        q2n == [i \in 1..4 |-> IF RLess(dot0, R(0)) THEN RNeg(q2[i]) ELSE q2[i]]
        dot == RAbs(dot0)
    IN  IF RLess(lerpThreshold, dot)
        THEN [i \in 1..4 |-> lerp(q1[i], q2n[i], t)]
        ELSE [i \in 1..4 |-> [s0 |-> <<dot, t>>, a |-> q1[i],
                              s1 |-> <<dot, t>>, b |-> q2n[i]]]

\* an insert that leaves the buffer in arrival order
SortByTimestamp_arrival(q) == q

\* Array.sort((a, b) => a.timestamp - b.timestamp): stable
RECURSIVE SortByTimestamp(_)
SortByTimestamp(q) ==
    IF q = <<>> THEN <<>>
    ELSE LET x == q[Len(q)]
             front == SortByTimestamp(SubSeq(q, 1, Len(q) - 1))
             le == SelectSeq(front, LAMBDA y : y.timestamp <= x.timestamp)
             gt == SelectSeq(front, LAMBDA y : y.timestamp > x.timestamp)
         IN  le \o <<x>> \o gt

BufferOf(k, p) ==
    IF p \in DOMAIN k.interpolationBuffer THEN k.interpolationBuffer[p] ELSE <<>>

GFire(k, e) == [k EXCEPT !.ev = Append(@, e)]

handlePlayerUpdate(k, p, state) ==
    LET sorted == SortByTimestamp(Append(BufferOf(k, p), state))
        kept == SelectSeq(sorted, LAMBDA s : k.now - s.timestamp < bufferWindow)
        k1 == [k EXCEPT !.interpolationBuffer = Put(@, p, kept)]
        k2 == IF p \notin DOMAIN k1.playerStates
              THEN GFire([k1 EXCEPT !.playerStates = Put(@, p, state)],
                         [e |-> "player_joined", id |-> p])
              ELSE k1
    IN  GFire(k2, [e |-> "player_update", id |-> p, state |-> state])

\* the loop of update() over one buffer: index of the first sample past the
\* render time, 0 when there is none
FirstAfter(buf, currentTime) ==
    LET is == {i \in 1..Len(buf) : buf[i].timestamp > currentTime}
    IN  IF is = {} THEN 0 ELSE SetMin(is)

\* the interpolation factor update() computes for previousState, nextState
FactorOf(previousState, nextState, currentTime) ==
    LET total == nextState.timestamp - previousState.timestamp
        progress == IF total > 0
                    THEN Rat(currentTime - previousState.timestamp, total)
                    ELSE R(0)
    IN  RMax(R(0), RMin(R(1), progress))

\* what update() stores for a player with buffer buf (two samples or more)
InterpolatedState(buf, currentTime) ==
    LET i == FirstAfter(buf, currentTime)
    IN  IF i = 0 THEN buf[Len(buf)]
        ELSE LET nextState == buf[i]
                 previousState == IF i > 1 THEN buf[i - 1] ELSE buf[i]
                 factor == FactorOf(previousState, nextState, currentTime)
             IN  [nextState EXCEPT
                     !.position = [j \in 1..3 |->
                         lerp(previousState.position[j], nextState.position[j], factor)],
                     !.rotation = slerpQuaternions(previousState.rotation,
                                                   nextState.rotation, factor)]

update(k) ==
    IF k.localPlayerId = Null THEN k
    ELSE LET currentTime == k.now - k.interpolationDelay
             ps == {p \in DOMAIN k.interpolationBuffer :
                        p # k.localPlayerId /\ Len(k.interpolationBuffer[p]) >= 2}
         IN  [k EXCEPT !.playerStates =
                 [p \in DOMAIN @ \cup ps |->
                     IF p \in ps
                     THEN InterpolatedState(k.interpolationBuffer[p], currentTime)
                     ELSE @[p]]]

\* ------------------------------------------------------------ outbound
createEmptyPlayerState(k, id) ==
    [id |-> id, position |-> <<R(0), R(0), R(0)>>,
     rotation |-> <<R(0), R(0), R(0), R(1)>>, timestamp |-> k.now]

\* SignalingClient.broadcast as the game client sees it: one emit to the relay
signalBroadcast(k, message) ==
    [k EXCEPT !.out = Append(@, [type |-> message.type, data |-> message.data,
                                 via |-> "relay", to |-> {}])]

\* WebRTCPeer.broadcast: connection.send on every open connection
peerBroadcast(k, message) ==
    [k EXCEPT !.out = Append(@, [type |-> message.type, data |-> message.data,
                                 via |-> "direct",
                                 to |-> {p \in DOMAIN k.connections : k.connections[p].open}])]

\* sendPlayerState that takes the peer client whenever there is one
sendPlayerState_peerFirst(k, state) ==
    LET message == [type |-> "player_update", data |-> state]
    IN  IF k.peerClient THEN peerBroadcast(k, message) ELSE signalBroadcast(k, message)

sendPlayerState(k, state) ==
    LET message == [type |-> "player_update", data |-> state]
    IN  IF k.mode = "SIGNALING_ONLY" THEN signalBroadcast(k, message)
        ELSE IF k.peerClient THEN peerBroadcast(k, message)
        ELSE k

sendMessage(k, data) ==
    LET message == [type |-> "message", data |-> data]
    IN  IF k.mode = "SIGNALING_ONLY" THEN signalBroadcast(k, message)
        ELSE IF k.peerClient THEN peerBroadcast(k, message)
        ELSE k

\* {...a, ...b}
Spread(a, b) ==
    [f \in DOMAIN a \cup DOMAIN b |-> IF f \in DOMAIN b THEN b[f] ELSE a[f]]

LocalState(k) ==
    IF k.localPlayerId \in DOMAIN k.playerStates
    THEN k.playerStates[k.localPlayerId]
    ELSE createEmptyPlayerState(k, k.localPlayerId)

updatePlayerState(k, playerState) ==
    IF k.localPlayerId = Null THEN k
    ELSE IF k.now - k.lastUpdateTime < k.updateRate THEN k
    ELSE LET newState == [Spread(LocalState(k), playerState) EXCEPT !.timestamp = k.now]
         IN  sendPlayerState([k EXCEPT !.lastUpdateTime = k.now,
                                       !.playerStates = Put(@, k.localPlayerId, newState)],
                             newState)

\* 'peer_connected' handler of setupPeerClient
onPeerConnected(k, peerId) ==
    LET k1 == GFire(k, [e |-> "player_joined", id |-> peerId])
    IN  IF k1.localPlayerId # Null THEN sendPlayerState(k1, LocalState(k1)) ELSE k1

setUpdateRate(k, updatesPerSecond) == [k EXCEPT !.updateRate = 1000 \div updatesPerSecond]

\* 'connect' handler of the signaling client: the id is known and, outside
\* SIGNALING_ONLY, the peer client is set up
onGameConnect(k) ==
    [k EXCEPT !.localPlayerId = SelfId,
              !.peerClient = (k.mode # "SIGNALING_ONLY") \/ @]

\* 'peer_disconnected' handler of setupPeerClient
onPeerDisconnected(k, peerId) ==
    [GFire(k, [e |-> "player_left", id |-> peerId]) EXCEPT
        !.playerStates = Remove(@, peerId)]

\* ------------------------------------------------ inbound player states
MaxSamples == 3      \* samples held in one interpolation buffer
MaxAdvance == 2      \* advances of the clock

RemotePlayer == "p"
Steps == {50, bufferWindow}          \* ms between two tasks
Latencies == {0, 150}                \* age of a sample on arrival, ms

Poses ==
    { [position |-> <<R(0), R(0), R(0)>>, rotation |-> <<R(0), R(0), R(0), R(1)>>],
      [position |-> <<R(3), R(-6), Rat(1, 2)>>,
       rotation |-> <<R(0), Rat(3, 5), R(0), Rat(4, 5)>>] }

Samples(k) ==
    { [id |-> RemotePlayer, position |-> q.position, rotation |-> q.rotation,
       timestamp |-> k.now - o] : q \in Poses, o \in Latencies }

I_connect ==
    /\ c.localPlayerId = Null
    /\ c' = onGameConnect(GBegin(c, "connect", Null))
    /\ UNCHANGED <<syncClose, cl, srv, net, g>>

\* a 'player_update' message of the remote player arrives
I_playerUpdate ==
    \E s \in Samples(c) :
        /\ c.peerClient
        /\ Len(BufferOf(c, RemotePlayer)) < MaxSamples
        /\ c' = handlePlayerUpdate(GBegin(c, "handlePlayerUpdate", s), RemotePlayer, s)
        /\ g' = [g EXCEPT !.latest = <<s>>]
        /\ UNCHANGED <<syncClose, cl, srv, net>>

\* the game loop calls update()
I_update ==
    /\ c' = update(GBegin(c, "update", Null))
    /\ UNCHANGED <<syncClose, cl, srv, net, g>>

I_peerDisconnected ==
    /\ c.peerClient
    /\ RemotePlayer \in DOMAIN c.playerStates
    /\ c' = onPeerDisconnected(GBegin(c, "peer_disconnected", RemotePlayer), RemotePlayer)
    /\ UNCHANGED <<syncClose, cl, srv, net, g>>

\* time passes between two tasks
I_advance ==
    \E d \in Steps :
        /\ c.adv < MaxAdvance
        /\ c' = [GBegin(c, "tick", d) EXCEPT !.now = @ + d, !.adv = @ + 1]
        /\ UNCHANGED <<syncClose, cl, srv, net, g>>

InitInterp ==
    /\ c = NewGame
    /\ syncClose = FALSE
    /\ cl = Null
    /\ srv = Null
    /\ net = Null
    /\ g = [latest |-> <<>>]

NextInterp ==
    \/ I_connect
    \/ I_playerUpdate
    \/ I_update
    \/ I_peerDisconnected
    \/ I_advance

SpecInterp == InitInterp /\ [][NextInterp]_vars

\* ------------------------------------------------ outbound player state
MaxSends == 3        \* sends remembered within one second

Rates == {1, 2}                      \* arguments of setUpdateRate
SendSteps == {50, 500, 1000}         \* ms between two tasks
Window == 1000

\* Partial<PlayerState> values pushed by the caller
Partials ==
    { [position |-> <<R(0), R(0), R(0)>>],
      [position |-> <<R(3), R(-6), Rat(1, 2)>>],
      [rotation |-> <<R(0), Rat(3, 5), R(0), Rat(4, 5)>>] }

\* history: the times of the sends of the last second, and the state sent last
SendsWithin(k, sends) == SelectSeq(sends, LAMBDA t : k.now - t < Window)
Recorded(k, h) ==
    IF k.out = <<>> THEN h
    ELSE [h EXCEPT !.sends = SendsWithin(k, @) \o [i \in 1..Len(k.out) |-> k.now],
                   !.last = <<k.out[Len(k.out)].data>>]

\* ---- gameStore: the local player's entry and its broadcasts
Corners == {<<R(0), R(0), R(0)>>, <<R(3), R(-6), Rat(1, 2)>>}
Scores == {0, 1}
StoreFields == {"position", "score"}

CONNECTION_TIMEOUT == 15000

\* The store's state.  timeout: connectionTimeoutId holds a pending timer;
\* pm: what the store's PeerManager was last asked to do; elapsed: ms since
\* connect() was called.
NewStore ==
    [ isConnected |-> FALSE, isConnecting |-> FALSE, isReconnecting |-> FALSE,
      connectionError |-> Null, roomId |-> Null, playerCount |-> 0,
      localPlayerId |-> Null, peerManager |-> FALSE, players |-> EmptyMap,
      timeout |-> FALSE, pm |-> "none", elapsed |-> 0,
      op |-> "new", arg |-> Null, out |-> <<>> ]

\* Partial<PlayerState> values handed to updateAndBroadcastPlayerState
StorePartials ==
    { [position |-> p] : p \in Corners } \cup { [score |-> n] : n \in Scores }
        \cup { [position |-> p, score |-> n] : p \in Corners, n \in Scores }

\* 'clientConnected' listener of the store: the local player is created in
\* a random corner
onClientConnected(k, corner) ==
    [k EXCEPT !.timeout = FALSE,
              !.isConnected = TRUE, !.isConnecting = FALSE, !.isReconnecting = FALSE,
              !.localPlayerId = SelfId,
              !.players = Put(EmptyMap, SelfId,
                              [id |-> SelfId, position |-> corner, score |-> 0]),
              !.pm = "joinRoom"]

updateAndBroadcastPlayerState(k, partialState) ==
    IF k.localPlayerId = Null \/ ~k.peerManager THEN k
    ELSE LET currentState == k.players[k.localPlayerId]
             given == DOMAIN partialState \cap StoreFields
             differs == {f \in given : currentState[f] # partialState[f]}
             updatedState == [f \in DOMAIN currentState |->
                                 IF f \in differs THEN partialState[f] ELSE currentState[f]]
             broadcastPayload == [f \in {"id"} \cup given |->
                                     IF f = "id" THEN k.localPlayerId ELSE updatedState[f]]
         IN  IF differs = {} THEN k
             ELSE [k EXCEPT !.players = Put(@, k.localPlayerId, updatedState),
                            !.out = Append(@, [type |-> "player_state_update",
                                               data |-> broadcastPayload])]

\* history: the value broadcast last for every field of the store
Broadcast(k, h) ==
    IF k.out = <<>> THEN h
    ELSE LET d == k.out[Len(k.out)].data
         IN  [h EXCEPT !.bcast = [f \in DOMAIN @ \cup (DOMAIN d \ {"id"}) |->
                                     IF f \in DOMAIN d THEN d[f] ELSE @[f]]]

St_clientConnected ==
    \E corner \in Corners :
        /\ cl.localPlayerId = Null
        /\ cl' = onClientConnected([cl EXCEPT !.op = "clientConnected", !.arg = corner,
                                              !.out = <<>>], corner)
        /\ c' = GBegin(c, "idle", Null)
        /\ UNCHANGED <<syncClose, srv, net, g>>

St_push ==
    \E ps \in StorePartials :
        /\ cl' = updateAndBroadcastPlayerState(
                     [cl EXCEPT !.op = "updateAndBroadcastPlayerState", !.arg = ps,
                                !.out = <<>>], ps)
        /\ c' = GBegin(c, "idle", Null)
        /\ g' = Broadcast(cl', g)
        /\ UNCHANGED <<syncClose, srv, net>>

StoreIdle == [cl EXCEPT !.op = "idle", !.arg = Null, !.out = <<>>]

O_connect ==
    /\ c.localPlayerId = Null
    /\ c' = onGameConnect(GBegin(c, "connect", Null))
    /\ cl' = StoreIdle
    /\ UNCHANGED <<syncClose, srv, net, g>>

\* the application configures the rate before it pushes state
O_setUpdateRate ==
    \E r \in Rates :
        /\ g.sends = <<>> /\ g.last = <<>>
        /\ c.updateRate = updateRate
        /\ c' = setUpdateRate(GBegin(c, "setUpdateRate", r), r)
        /\ cl' = StoreIdle
        /\ UNCHANGED <<syncClose, srv, net, g>>

\* the caller pushes local state
O_updatePlayerState ==
    \E ps \in Partials :
        /\ Len(SendsWithin(c, g.sends)) < MaxSends
        /\ c' = updatePlayerState(GBegin(c, "updatePlayerState", ps), ps)
        /\ g' = Recorded(c', g)
        /\ cl' = StoreIdle
        /\ UNCHANGED <<syncClose, srv, net>>

\* a direct link to a peer reaches connected
O_peerConnected ==
    \E p \in RemoteIds :
        /\ c.peerClient
        /\ Len(SendsWithin(c, g.sends)) < MaxSends
        /\ c' = onPeerConnected(GBegin(c, "peer_connected", p), p)
        /\ g' = Recorded(c', g)
        /\ cl' = StoreIdle
        /\ UNCHANGED <<syncClose, srv, net>>

O_advance ==
    \E d \in SendSteps :
        /\ c.adv < MaxAdvance
        /\ c' = [GBegin(c, "tick", d) EXCEPT !.now = @ + d, !.adv = @ + 1]
        /\ g' = [g EXCEPT !.sends = SendsWithin(c', @)]
        /\ cl' = StoreIdle
        /\ UNCHANGED <<syncClose, srv, net>>

InitSend ==
    /\ c = NewGame
    /\ syncClose = FALSE
    /\ cl = [NewStore EXCEPT !.peerManager = TRUE, !.pm = "connect"]
    /\ srv = Null
    /\ net = Null
    /\ g = [sends |-> <<>>, last |-> <<>>, bcast |-> EmptyMap]

NextSend ==
    \/ O_connect
    \/ O_setUpdateRate
    \/ O_updatePlayerState
    \/ O_peerConnected
    \/ O_advance
    \/ St_clientConnected
    \/ St_push

SpecSend == InitSend /\ [][NextSend]_vars

\* ------------------------------------------------ routes of a send
Modes == {"SIGNALING_ONLY", "WEBRTC_ONLY", "HYBRID"}

\* WebRTCPeer.initialize resolved: the PeerJS peer is open
onPeerInitialized(k) == [GFire(k, [e |-> "connected"]) EXCEPT !.peerOpen = TRUE]

\* a failed initialization that is only reported
onPeerInitFailed_noFallback(k) == GFire(k, [e |-> "error"])

\* WebRTCPeer.initialize rejected: HYBRID falls back to SIGNALING_ONLY
onPeerInitFailed(k) ==
    LET k1 == GFire(k, [e |-> "error"])
    IN  IF k1.mode = "HYBRID"
        THEN GFire([k1 EXCEPT !.mode = "SIGNALING_ONLY"], [e |-> "connected"])
        ELSE k1

sendToPeer(k, peerId, message) ==
    IF peerId \in DOMAIN k.connections /\ k.connections[peerId].open
    THEN [k EXCEPT !.out = Append(@, [type |-> message.type, data |-> message.data,
                                      via |-> "direct", to |-> {peerId}])]
    ELSE k

\* 'open' handler of handleNewConnection
WP_onOpen(k, p) ==
    sendToPeer(onPeerConnected([k EXCEPT !.connections = Put(@, p, [open |-> TRUE])], p),
               p, [type |-> "welcome", data |-> SelfId])

\* 'close' handler of handleNewConnection
WP_onClose(k, p) ==
    onPeerDisconnected([k EXCEPT !.connections = Remove(@, p)], p)

\* 'user_joined' and 'user_left' handlers of the game client
onGameUserJoined(k, p) ==
    IF k.mode = "SIGNALING_ONLY" THEN GFire(k, [e |-> "player_joined", id |-> p]) ELSE k

onGameUserLeft(k, p) ==
    IF k.mode = "SIGNALING_ONLY"
    THEN [GFire(k, [e |-> "player_left", id |-> p]) EXCEPT !.playerStates = Remove(@, p)]
    ELSE k

\* handleBroadcastMessage: dispatch on the type of the message
handleBroadcastMessage(k, senderId, message) ==
    CASE message.type = "player_update" -> handlePlayerUpdate(k, senderId, message.data)
      [] message.type = "message" ->
             GFire(k, [e |-> "message", id |-> senderId, data |-> message.data])
      [] OTHER -> k

\* 'broadcast' handler of the game client: relayed messages count only in
\* SIGNALING_ONLY mode
onGameBroadcast(k, senderId, message) ==
    IF k.mode = "SIGNALING_ONLY" THEN handleBroadcastMessage(k, senderId, message) ELSE k

MaxRelayed == 1         \* relayed samples buffered per player

\* messages the relay may deliver from member p
Relayed(k, p) ==
    { [type |-> "player_update",
       data |-> [id |-> p, position |-> <<R(0), R(0), R(0)>>,
                 rotation |-> <<R(0), R(0), R(0), R(1)>>, timestamp |-> k.now]],
      [type |-> "message", data |-> "{n:1}"],
      [type |-> "chat", data |-> "{n:1}"] }

R_connect ==
    /\ c.localPlayerId = Null
    /\ c' = onGameConnect(GBegin(c, "connect", Null))
    /\ UNCHANGED <<syncClose, cl, srv, net, g>>

R_peerInitialized ==
    /\ c.peerClient /\ ~c.peerOpen /\ c.mode # "SIGNALING_ONLY"
    /\ c' = onPeerInitialized(GBegin(c, "peer_open", Null))
    /\ UNCHANGED <<syncClose, cl, srv, net, g>>

R_peerInitFailed ==
    /\ c.peerClient /\ ~c.peerOpen /\ c.mode # "SIGNALING_ONLY"
    /\ c' = onPeerInitFailed(GBegin(c, "peer_error", Null))
    /\ UNCHANGED <<syncClose, cl, srv, net, g>>

\* another client becomes a member of the room
R_userJoined ==
    \E p \in RemoteIds \ g.members :
        /\ c.localPlayerId # Null
        /\ c' = onGameUserJoined(GBegin(c, "user_joined", p), p)
        /\ g' = [g EXCEPT !.members = @ \cup {p}]
        /\ UNCHANGED <<syncClose, cl, srv, net>>

R_userLeft ==
    \E p \in g.members :
        /\ c' = onGameUserLeft(GBegin(c, "user_left", p), p)
        /\ g' = [g EXCEPT !.members = @ \ {p}]
        /\ UNCHANGED <<syncClose, cl, srv, net>>

\* the data connection with member p opens
R_connOpen ==
    \E p \in g.members \ DOMAIN c.connections :
        /\ c.peerOpen
        /\ c' = WP_onOpen(GBegin(c, "conn_open", p), p)
        /\ UNCHANGED <<syncClose, cl, srv, net, g>>

\* the transport of a connection goes down; its 'close' event is still due
R_connDown ==
    \E p \in DOMAIN c.connections :
        /\ c.connections[p].open
        /\ c' = [GBegin(c, "conn_down", p) EXCEPT !.connections[p].open = FALSE]
        /\ UNCHANGED <<syncClose, cl, srv, net, g>>

R_connClose ==
    \E p \in DOMAIN c.connections :
        /\ ~c.connections[p].open
        /\ c' = WP_onClose(GBegin(c, "conn_close", p), p)
        /\ UNCHANGED <<syncClose, cl, srv, net, g>>

\* the signaling server relays a broadcast of member p
R_broadcast ==
    \E p \in g.members :
        \E m \in Relayed(c, p) :
            /\ c.localPlayerId # Null
            /\ Len(BufferOf(c, p)) < MaxRelayed
            /\ c' = onGameBroadcast(GBegin(c, "broadcast", [from |-> p, msg |-> m]), p, m)
            /\ UNCHANGED <<syncClose, cl, srv, net, g>>

R_updatePlayerState ==
    \E ps \in Partials :
        /\ c' = updatePlayerState(GBegin(c, "updatePlayerState", ps), ps)
        /\ UNCHANGED <<syncClose, cl, srv, net, g>>

R_sendMessage ==
    \E data \in Payloads :
        /\ c' = sendMessage(GBegin(c, "sendMessage", data), data)
        /\ UNCHANGED <<syncClose, cl, srv, net, g>>

R_advance ==
    /\ c.adv < MaxAdvance
    /\ c' = [GBegin(c, "tick", updateRate) EXCEPT !.now = @ + updateRate, !.adv = @ + 1]
    /\ UNCHANGED <<syncClose, cl, srv, net, g>>

InitRoute ==
    /\ \E m \in Modes : c = [NewGame EXCEPT !.mode = m]
    /\ syncClose = FALSE
    /\ cl = Null
    /\ srv = Null
    /\ net = Null
    /\ g = [members |-> {}]

NextRoute ==
    \/ R_connect
    \/ R_peerInitialized
    \/ R_peerInitFailed
    \/ R_userJoined
    \/ R_userLeft
    \/ R_connOpen
    \/ R_connDown
    \/ R_connClose
    \/ R_broadcast
    \/ R_updatePlayerState
    \/ R_sendMessage
    \/ R_advance

SpecRoute == InitRoute /\ [][NextRoute]_vars

\* ------------------------------------------ the store's connect attempt
MaxWait == 4         \* ticks of the clock after connect()
TickMs == 5000

\* callback of the connection timeout
onConnectionTimeout(k) ==
    LET k1 == [k EXCEPT !.timeout = FALSE]
    IN  IF k1.isConnecting
        THEN [k1 EXCEPT !.pm = "disconnect",
                        !.isConnecting = FALSE,
                        !.connectionError = "Connection timed out. Please try again.",
                        !.roomId = Null, !.peerManager = FALSE]
        ELSE k1

\* connect(roomId)
store_connect(k, roomId) ==
    IF k.isConnected \/ k.isConnecting THEN k
    ELSE [k EXCEPT !.isConnecting = TRUE, !.connectionError = Null, !.roomId = roomId,
                   !.isReconnecting = FALSE, !.timeout = TRUE, !.elapsed = 0,
                   !.pm = "connect", !.peerManager = TRUE]

\* 'clientDisconnected' listener
onClientDisconnected(k) ==
    [k EXCEPT !.timeout = FALSE,
              !.isConnected = FALSE, !.isConnecting = FALSE, !.isReconnecting = TRUE,
              !.connectionError = "Disconnected from signaling server"]

\* 'roomJoined' listener
onRoomJoined(k, roomId, userCount) ==
    IF k.localPlayerId # Null /\ k.localPlayerId \in DOMAIN k.players
    THEN LET k1 == [k EXCEPT !.roomId = roomId, !.playerCount = userCount]
         IN  IF k1.peerManager
             THEN [k1 EXCEPT !.out = Append(@, [type |-> "player_state",
                                                data |-> k.players[k.localPlayerId]])]
             ELSE k1
    ELSE k

StoreBegin(k, op, arg) == [k EXCEPT !.op = op, !.arg = arg, !.out = <<>>]

T_connect ==
    \E r \in Rooms :
        /\ cl.pm = "none"
        /\ cl' = store_connect(StoreBegin(cl, "connect", r), r)
        /\ UNCHANGED <<c, syncClose, srv, net, g>>

\* the signaling socket of the store's PeerManager connects
T_clientConnected ==
    \E corner \in Corners :
        /\ cl.pm = "connect" /\ cl.peerManager
        /\ cl' = onClientConnected(StoreBegin(cl, "clientConnected", corner), corner)
        /\ UNCHANGED <<c, syncClose, srv, net, g>>

\* the signaling socket drops
T_clientDisconnected ==
    /\ cl.pm \in {"joinRoom", "joined"}
    /\ cl' = [onClientDisconnected(StoreBegin(cl, "clientDisconnected", Null))
                 EXCEPT !.pm = "connect"]
    /\ UNCHANGED <<c, syncClose, srv, net, g>>

\* room_users arrives: the PeerManager emits roomJoined
T_roomJoined ==
    \E n \in 1..2 :
        /\ cl.pm = "joinRoom"
        /\ cl' = [onRoomJoined(StoreBegin(cl, "roomJoined", n), cl.roomId, n)
                     EXCEPT !.pm = "joined"]
        /\ UNCHANGED <<c, syncClose, srv, net, g>>

TimerDue == cl.timeout /\ cl.elapsed >= CONNECTION_TIMEOUT

T_timeout ==
    /\ TimerDue
    /\ cl' = onConnectionTimeout(StoreBegin(cl, "timeout", Null))
    /\ UNCHANGED <<c, syncClose, srv, net, g>>

\* time passes; a due timer runs before more time passes
T_tick ==
    /\ cl.pm # "none" /\ ~TimerDue
    /\ cl.elapsed < MaxWait * TickMs
    /\ cl' = [StoreBegin(cl, "tick", TickMs) EXCEPT !.elapsed = @ + TickMs]
    /\ UNCHANGED <<c, syncClose, srv, net, g>>

InitAttempt ==
    /\ cl = NewStore
    /\ c = Null
    /\ syncClose = FALSE
    /\ srv = Null
    /\ net = Null
    /\ g = Null

NextAttempt ==
    \/ T_connect
    \/ T_clientConnected
    \/ T_clientDisconnected
    \/ T_roomJoined
    \/ T_timeout
    \/ T_tick

SpecAttempt == InitAttempt /\ [][NextAttempt]_vars

\* ------------------------------------------- the links of one PeerManager
\* SimplePeer destroys itself on a transport error and emits 'error', whose
\* handlers only log, and then 'close'
PC_onError_all(k, l) == closeAllPeers(k)

PC_onError(k, l) == PC_close(k, l)

\* texts that may arrive on a data channel
Texts == {JSON_stringify([type |-> t, payload |-> v]) : t \in Types, v \in Payloads}
             \cup {Malformed}

\* the data channel of a live link opened: SimplePeer 'connect'
L_connect ==
    \E l \in DOMAIN c.links :
        /\ c.links[l].st = "live" /\ ~c.links[l].conn
        /\ NoMicrotask(c)
        /\ c' = PM_onPeerConnect(Begin(c, "peer_connect", c.links[l].peer), l)
        /\ Frame

L_broadcast ==
    \E t \in Types, v \in Payloads :
        /\ NoMicrotask(c)
        /\ \A l \in DOMAIN c.links : Len(c.links[l].wire) < MaxData
        /\ c' = PM_broadcast(Begin(c, "PM.broadcast", [type |-> t, payload |-> v]), t, v)
        /\ Frame

L_send ==
    \E p \in RemoteIds, t \in Types, v \in Payloads :
        /\ NoMicrotask(c)
        /\ \A l \in DOMAIN c.links : Len(c.links[l].wire) < MaxData
        /\ c' = PM_send(Begin(c, "PM.send", [to |-> p, type |-> t, payload |-> v]), p, t, v)
        /\ Frame

\* a text arrives on the open data channel of a link: SimplePeer 'data'
L_data ==
    \E l \in DOMAIN c.links, text \in Texts :
        /\ c.links[l].st = "live" /\ c.links[l].conn
        /\ NoMicrotask(c)
        /\ c' = PM_onPeerData(Begin(c, "peer_data", text), l, text)
        /\ Frame

\* the transport of a live link fails
L_error ==
    \E l \in DOMAIN c.links :
        /\ c.links[l].st = "live"
        /\ NoMicrotask(c)
        /\ c' = PC_onError(Begin(c, "peer_error", l), l)
        /\ Frame

\* the channel of a link carried its oldest text to the remote side
L_transmit ==
    \E l \in DOMAIN c.links :
        /\ c.links[l].wire # <<>>
        /\ c' = [Begin(c, "transmit", l) EXCEPT !.links[l].wire = Tail(@)]
        /\ Frame

InitLinks == InitSig

NextLinks ==
    \/ SocketConnect
    \/ SocketDrop
    \/ TimerFire
    \/ Api_connect
    \/ Api_disconnect
    \/ Api_joinRoom
    \/ Api_leaveRoom
    \/ RoomUsers
    \/ UserJoined
    \/ UserLeft
    \/ DeliverClose
    \/ L_connect
    \/ L_broadcast
    \/ L_send
    \/ L_data
    \/ L_error
    \/ L_transmit

SpecLinks == InitLinks /\ [][NextLinks]_vars

\* ------------------------------------------ the room table of the server
\* sockets are identified by ids the server never hands out twice
Sockets == {"s1", "s2", "s3"}

\* cl[s]: "new" before the connection of s, "open" while it is connected,
\* "gone" after its disconnect; g: the handler of the step and its input
S_connection ==
    \E s \in Sockets :
        /\ cl[s] = "new"
        /\ srv' = srv_onConnection(srv, s, s)
        /\ cl' = [cl EXCEPT ![s] = "open"]
        /\ g' = [op |-> "connection", id |-> s, room |-> Null, sent |-> {}]
        /\ UNCHANGED <<c, syncClose, net>>

S_joinRoom ==
    \E s \in Sockets, r \in Rooms :
        /\ cl[s] = "open"
        /\ srv' = srv_joinRoom(srv, s, r).sv
        /\ g' = [op |-> "join_room", id |-> s, room |-> r,
                 sent |-> srv_joinRoom(srv, s, r).send]
        /\ UNCHANGED <<c, syncClose, net, cl>>

S_leaveRoom ==
    \E s \in Sockets, r \in Rooms \cup {Null} :
        /\ cl[s] = "open"
        /\ srv' = srv_leaveRoom(srv, s, r).sv
        /\ g' = [op |-> "leave_room", id |-> s, room |-> r,
                 sent |-> srv_leaveRoom(srv, s, r).send]
        /\ UNCHANGED <<c, syncClose, net, cl>>

S_disconnect ==
    \E s \in Sockets :
        /\ cl[s] = "open"
        /\ srv' = srv_onDisconnect(srv, s).sv
        /\ cl' = [cl EXCEPT ![s] = "gone"]
        /\ g' = [op |-> "disconnect", id |-> s, room |-> Null,
                 sent |-> srv_onDisconnect(srv, s).send]
        /\ UNCHANGED <<c, syncClose, net>>

InitRooms ==
    /\ srv = [NewServer EXCEPT !.sio = [r \in Rooms |-> {}]]
    /\ cl = [s \in Sockets |-> "new"]
    /\ g = [op |-> "listen", id |-> Null, room |-> Null, sent |-> {}]
    /\ c = NewClient /\ syncClose = FALSE /\ net = EmptyMap

NextRooms ==
    \/ S_connection
    \/ S_joinRoom
    \/ S_leaveRoom
    \/ S_disconnect

SpecRooms == InitRooms /\ [][NextRooms]_vars

\* ------------------------------------------------ the relay of signals
\* a room id is any string a client sends, a socket id among them
RoomNames == Rooms \cup Sockets
Signals == {"offer", "candidate"}
MaxNamed == 1           \* join_room messages that name a socket id

\* join_room with the id of a socket as the room id
S_joinNamed ==
    \E s \in Sockets, r \in Sockets :
        /\ cl[s] = "open"
        /\ net.named < MaxNamed
        /\ net' = [named |-> net.named + 1]
        /\ srv' = srv_joinRoom(srv, s, r).sv
        /\ g' = [op |-> "join_room", id |-> s, room |-> r,
                 sent |-> srv_joinRoom(srv, s, r).send]
        /\ UNCHANGED <<c, syncClose, cl>>

\* the signal handler of the server runs for a message of socket s
S_signal ==
    \E s \in Sockets, t \in Sockets, x \in Signals :
        /\ cl[s] = "open"
        /\ LET m == [t |-> "signal", target |-> t, signal |-> x]
           IN  g' = [op |-> "signal", id |-> s, room |-> Null,
                     msg |-> m, sent |-> srv_signal(srv, s, m).send]
        /\ UNCHANGED <<c, syncClose, net, cl, srv>>

InitRelay ==
    /\ srv = [NewServer EXCEPT !.sio = [r \in RoomNames |-> {}]]
    /\ cl = [s \in Sockets |-> "new"]
    /\ g = [op |-> "listen", id |-> Null, room |-> Null, sent |-> {}]
    /\ c = NewClient /\ syncClose = FALSE /\ net = [named |-> 0]

NextRelay ==
    \/ S_connection
    \/ S_joinNamed
    \/ S_leaveRoom
    \/ S_disconnect
    \/ S_signal

SpecRelay == InitRelay /\ [][NextRelay]_vars

\* --------------------------------- the PeerManagers the store has created
\* net is the sequence of the PeerManagers made by connect(), each with the
\* state of its signaling socket and the roomId its listeners closed over;
\* g names the PeerManager whose event ran the store's listener last.  The
\* listeners stay bound to the store for the life of their PeerManager.
MaxManagers == 2     \* PeerManager objects the store may create

ManagerStates == {"connecting", "connected", "reconnecting", "closed"}

Active(ms) == {i \in DOMAIN ms : ms[i].status # "closed"}

\* 'clientReconnecting' and 'clientReconnectFailed' listeners
onClientReconnecting(k) ==
    [k EXCEPT !.isReconnecting = TRUE,
              !.connectionError = "Disconnected from signaling server"]

\* connect(roomId): past the guard a PeerManager is constructed and saved
W_connect ==
    \E r \in Rooms :
        /\ cl.isConnected \/ cl.isConnecting \/ Len(net) < MaxManagers
        /\ cl' = store_connect(StoreBegin(cl, "connect", r), r)
        /\ net' = IF cl.isConnected \/ cl.isConnecting THEN net
                  ELSE Append(net, [status |-> "connecting", roomId |-> r])
        /\ g' = [op |-> "connect", by |-> 0]
        /\ UNCHANGED <<c, syncClose, srv>>

\* the socket of PeerManager i connects, for the first time or again
W_clientConnected ==
    \E i \in DOMAIN net, corner \in Corners :
        /\ net[i].status \in {"connecting", "reconnecting"}
        /\ cl' = onClientConnected(StoreBegin(cl, "clientConnected", corner), corner)
        /\ net' = [net EXCEPT ![i].status = "connected"]
        /\ g' = [op |-> "clientConnected", by |-> i]
        /\ UNCHANGED <<c, syncClose, srv>>

\* the socket of PeerManager i drops; its SignalingClient starts to reconnect
W_clientDisconnected ==
    \E i \in DOMAIN net :
        /\ net[i].status = "connected"
        /\ cl' = onClientDisconnected(StoreBegin(cl, "clientDisconnected", Null))
        /\ net' = [net EXCEPT ![i].status = "reconnecting"]
        /\ g' = [op |-> "clientDisconnected", by |-> i]
        /\ UNCHANGED <<c, syncClose, srv>>

\* a reconnect attempt of PeerManager i starts
W_clientReconnecting ==
    \E i \in DOMAIN net :
        /\ net[i].status = "reconnecting"
        /\ cl' = onClientReconnecting(StoreBegin(cl, "clientReconnecting", Null))
        /\ net' = net
        /\ g' = [op |-> "clientReconnecting", by |-> i]
        /\ UNCHANGED <<c, syncClose, srv>>

\* the connection timeout set by the last connect() fires: it disconnects
\* the PeerManager of that call, whose socket never connected
W_timeout ==
    /\ cl.timeout
    /\ cl' = onConnectionTimeout(StoreBegin(cl, "timeout", Null))
    /\ net' = IF cl.isConnecting THEN [net EXCEPT ![Len(net)].status = "closed"]
              ELSE net
    /\ g' = [op |-> "timeout", by |-> 0]
    /\ UNCHANGED <<c, syncClose, srv>>

InitManagers ==
    /\ cl = NewStore
    /\ net = <<>>
    /\ g = [op |-> "new", by |-> 0]
    /\ c = Null
    /\ syncClose = FALSE
    /\ srv = Null

NextManagers ==
    \/ W_connect
    \/ W_clientConnected
    \/ W_clientDisconnected
    \/ W_clientReconnecting
    \/ W_timeout

SpecManagers == InitManagers /\ [][NextManagers]_vars

\* ------------------------------ the store's PeerManager across a reconnect
\* c is the PeerManager the store created, cl the store; the store's
\* clientConnected listener calls peerManager.joinRoom(roomId) inside the
\* socket's connect event, after the SignalingClient's own handler
V_connect ==
    \E r \in Rooms :
        /\ cl.pm = "none"
        /\ cl' = store_connect(StoreBegin(cl, "connect", r), r)
        /\ c' = PM_connect(Begin(c, "PM.connect", Null))
        /\ g' = GhostOf(c')
        /\ UNCHANGED <<syncClose, srv, net>>

V_socketConnect ==
    \E corner \in Corners :
        /\ c.mgr = "connecting" /\ ~c.connected
        /\ NoMicrotask(c)
        /\ cl.peerManager
        /\ c' = PM_joinRoom(onSocketConnect([Begin(c, "connect", Null) EXCEPT
                                 !.connected = TRUE, !.sid = SelfId, !.mgr = "open"]),
                            cl.roomId)
        /\ cl' = onClientConnected(StoreBegin(cl, "clientConnected", corner), corner)
        /\ g' = GhostOf(c')
        /\ UNCHANGED <<syncClose, srv, net>>

V_socketDrop ==
    /\ c.connected
    /\ NoMicrotask(c)
    /\ CanReconnect(c)
    /\ c' = onSocketDisconnect([Begin(c, "drop", Null) EXCEPT
                                    !.connected = FALSE, !.sid = Null, !.mgr = "connecting"])
    /\ cl' = onClientDisconnected(StoreBegin(cl, "clientDisconnected", Null))
    /\ g' = GhostOf(c')
    /\ UNCHANGED <<syncClose, srv, net>>

\* room_users arrives: links are created and the store hears roomJoined
V_roomUsers ==
    \E us \in SUBSET RemoteIds :
        /\ c.connected
        /\ NoMicrotask(c)
        /\ CanCreate(c, Cardinality(us))
        /\ c' = PM_onRoomUsers(Begin(c, "room_users", Null), us \cup {SelfId})
        /\ cl' = IF c.roomId # Null
                 THEN onRoomJoined(StoreBegin(cl, "roomJoined", Null), c.roomId,
                                   Cardinality(us) + 1)
                 ELSE cl
        /\ g' = GhostOf(c')
        /\ UNCHANGED <<syncClose, srv, net>>

InitRejoin ==
    /\ c = NewClient
    /\ cl = NewStore
    /\ g = NewGhost
    /\ syncClose \in BOOLEAN
    /\ srv = EmptyMap /\ net = EmptyMap

NextRejoin ==
    \/ V_connect
    \/ V_socketConnect
    \/ V_socketDrop
    \/ V_roomUsers
    \/ TimerFire
    \/ UserJoined
    \/ DeliverClose

SpecRejoin == InitRejoin /\ [][NextRejoin]_vars

\* ------------------------------------------------ slerp as a function
QuatParts == {R(-1), Rat(-1, 2), R(0), Rat(1, 2), R(1)}
Quats == {<<x, y, z, w>> : x \in QuatParts, y \in QuatParts, z \in QuatParts, w \in QuatParts}
Factors == {R(0), Rat(1, 4), Rat(1, 2), R(1)}
Negated(q) == [i \in 1..4 |-> RNeg(q[i])]

\* slerpQuaternions(q, q, t)
S_slerpSame ==
    /\ c.same = <<>>
    /\ c' = [c EXCEPT !.same = <<slerpQuaternions(c.q, c.q, c.t)>>]
    /\ UNCHANGED <<syncClose, cl, srv, net, g>>

\* slerpQuaternions(q, -q, t)
S_slerpNegated ==
    /\ c.negated = <<>>
    /\ c' = [c EXCEPT !.negated = <<slerpQuaternions(c.q, Negated(c.q), c.t)>>]
    /\ UNCHANGED <<syncClose, cl, srv, net, g>>

InitSlerp ==
    /\ \E q \in Quats, t \in Factors : c = [q |-> q, t |-> t, same |-> <<>>, negated |-> <<>>]
    /\ syncClose = FALSE
    /\ cl = Null
    /\ srv = Null
    /\ net = Null
    /\ g = Null

NextSlerp ==
    \/ S_slerpSame
    \/ S_slerpNegated

SpecSlerp == InitSlerp /\ [][NextSlerp]_vars

\* ------------------------------------------------- SignalingClient claims
PendingTimers == Cardinality(DOMAIN c.timers)

\* C3: in SignalingClient at most one custom reconnect timer is pending at
\* any time, under every interleaving of socket disconnect events,
\* reconnect_failed events, timer firings and calls to connect() and
\* disconnect().
AtMostOneReconnectTimer == PendingTimers <= 1

\* the step ran the body of attemptReconnect (it got past the guard)
StartsAttempt ==
    \/ c'.op \in {"drop", "reconnect_failed"} /\ ~c.isReconnecting
    \/ c'.op = "SC.disconnect" /\ c.connected

\* C4: a custom reconnect attempt started when reconnectAttempts has already
\* reached maxReconnectAttempts discards the socket, creates a new socket
\* object, connects it and schedules no backoff timer; an attempt at or below
\* the cap schedules one backoff timer and keeps the socket object.
RecreateAfterCap ==
    [][StartsAttempt =>
         IF c.reconnectAttempts >= maxReconnectAttempts
         THEN /\ c'.socketGen = c.socketGen + 1
              /\ c'.mgr = "connecting" /\ ~c'.connected
              /\ c'.sched = <<>>
         ELSE /\ c'.socketGen = c.socketGen
              /\ Len(c'.sched) = 1
              /\ c'.reconnectTimer \in DOMAIN c'.timers
              /\ c'.reconnectAttempts = c.reconnectAttempts + 1]_vars

\* the socket was recreated by a reconnect attempt past the cap
RecreatedSocket ==
    /\ c.op = "reconnect_failed"
    /\ c.socketGen = 1 /\ c.mgr = "connecting" /\ c.sched = <<>>

RejoinOnConnect ==
    [][c'.op = "connect" =>
         IF g.room # Null
         THEN c'.out = <<[t |-> "join_room", room |-> g.room]>>
         ELSE c'.out = <<>>]_vars

\* a recreated socket connected and rejoined the remembered room
RejoinedAfterRecreate ==
    /\ c.op = "connect" /\ c.socketGen = 1
    /\ g.room = "r2"
    /\ c.out = <<[t |-> "join_room", room |-> "r2"]>>

\* --------------------------------------------------- PeerManager claims
\* C2: PeerManager holds at most one live (not yet closed) PeerConnection per
\* remote id: every link that is not closed is the one its id maps to, so
\* room_users, user_joined and an inbound signal never made a second link for
\* an id whose link is live, and a close event removed no other link.
OneLinkPerId ==
    \A l \in DOMAIN c.links :
        /\ c.links[l].peer \in DOMAIN c.peers
        /\ c.peers[c.links[l].peer] = l

\* user_joined arrived for an id whose link, made by room_users, is still in
\* the map: no initiator link was created
JoinedWhileLinked ==
    /\ c.op = "user_joined"
    /\ c.arg \in DOMAIN c.peers
    /\ ~c.links[c.peers[c.arg]].initiator

\* C9: on a signaling disconnect event PeerManager emits clientDisconnected
\* and requests close of every link in its map, and eventually the map is
\* empty and peerDisconnect was emitted for each peer that had a link.
TeardownOnDisconnect ==
    /\ [][c'.op = "drop" =>
            /\ \E i \in 1..Len(c'.ev) : c'.ev[i].e = "clientDisconnected"
            /\ \A p \in DOMAIN c'.peers : c'.links[c'.peers[p]].st = "destroying"
            /\ \A l \in DOMAIN c'.links : c'.links[l].st = "destroying"]_vars
    /\ (c.op = "drop") ~> (DOMAIN c.peers = {} /\ g.owed = {})

\* the socket dropped while two links were in the map, their close events
\* are pending
DroppedWithLinks ==
    /\ c.op = "drop"
    /\ DOMAIN c.peers = RemoteIds
    /\ g.owed = RemoteIds

\* ----------------------------------------------------------- mesh claims
\* the server has client a in a room
ServerRoom(a) ==
    IF cl[a].connected /\ cl[a].sid \in DOMAIN srv.users
    THEN srv.users[cl[a].sid].room ELSE Null

\* the other members of the room the server has client a in
OtherMembers(a) ==
    LET r == ServerRoom(a)
    IN  IF r # Null /\ r \in DOMAIN srv.rooms
        THEN {srv.rooms[r][i] : i \in 1..Len(srv.rooms[r])} \ {cl[a].sid}
        ELSE {}

\* nothing is in flight and no close event is pending
Settled ==
    \A a \in Clients :
        net.up[a] = <<>> /\ net.down[a] = <<>> /\ NoMicrotask(cl[a])

\* C1: once all pending link close events and everything in flight have
\* settled, the set of peer ids in the link map of a PeerManager equals the
\* set of the other members currently in its room.
LinksMatchMembers ==
    Settled => \A a \in Clients : getPeerIds(cl[a]) = OtherMembers(a)

\* C7: immediately after PeerManager.leaveRoom() or PeerManager.disconnect()
\* returns, the link map is empty.
MapEmptyAfterLeave ==
    \A a \in Clients :
        cl[a].op \in {"PM.leaveRoom", "PM.disconnect"} => getPeerIds(cl[a]) = {}

\* C8: whenever a PeerManager is not in a room (roomId is null) it holds no
\* link.
NoLinkOutsideRoom ==
    \A a \in Clients : cl[a].roomId = Null => getPeerIds(cl[a]) = {}

LiveLinkTo(a, b) ==
    /\ cl[b].sid \in DOMAIN cl[a].peers
    /\ cl[a].links[cl[a].peers[cl[b].sid]].st = "live"

InitiatorTo(a, b) == cl[a].links[cl[a].peers[cl[b].sid]].initiator

\* C10: for every pair of room members that each hold a live link to the
\* other, exactly one of the two links was created with initiator = true.
OneInitiatorPerPair ==
    \A a, b \in Clients :
        (/\ a # b
         /\ ServerRoom(a) # Null /\ ServerRoom(a) = ServerRoom(b)
         /\ cl[a].roomId = ServerRoom(a) /\ cl[b].roomId = ServerRoom(b)
         /\ LiveLinkTo(a, b) /\ LiveLinkTo(b, a))
        => InitiatorTo(a, b) # InitiatorTo(b, a)

\* ------------------------------------------------------ session claims
\* a joined the room before b: the member array of the server is <<a, b>>
JoinedAfter(a, b) ==
    /\ a # b /\ cl[a].connected /\ cl[b].connected
    /\ \E r \in DOMAIN srv.rooms : srv.rooms[r] = <<cl[a].sid, cl[b].sid>>

\* a holds a connected link for b
Linked(a, b) == HasLinkTo(a, b) /\ LinkTo(a, b).st = "live" /\ LinkTo(a, b).conn

\* the user_joined listener leaves an initiator link for the newcomer, the
\* room_users listener a non-initiator link for every other member, and a
\* pair of which one joined after the other eventually holds two connected
\* links
JoinHandshake ==
    /\ [][\A a \in Clients :
             /\ cl'[a].op = "user_joined" =>
                    /\ cl'[a].arg \in DOMAIN cl'[a].peers
                    /\ cl'[a].links[cl'[a].peers[cl'[a].arg]].initiator
             /\ cl'[a].op = "room_users" =>
                    LET us == Head(net.down[a]).users
                    IN  \A i \in 1..Len(us) :
                            us[i] # cl[a].sid =>
                                /\ us[i] \in DOMAIN cl'[a].peers
                                /\ ~cl'[a].links[cl'[a].peers[us[i]]].initiator]_vars
    /\ \A a, b \in Clients :
           JoinedAfter(a, b) ~> (Linked(a, b) /\ Linked(b, a))
    /\ (g.msg # <<>>) ~> (g.msg = <<>>)

\* the events of a step that handled a data message, for the envelope d
\* that the sender passed to send()
OneDataEvent(b, d) ==
    cl'[b].ev = <<[e |-> "data", id |-> d.from,
                   data |-> [type |-> d.type, payload |-> d.payload]]>>

IdsOfOthers(a) == {SocketId(b, n) : b \in Clients \ {a}, n \in 1..(MaxDrops + 1)}

\* the links of a client for a socket that dropped are eventually closed,
\* and a link leaves the map only with a peerDisconnect for its id
DropClosesLinks ==
    /\ [][\A a \in Clients :
             \A p \in DOMAIN cl[a].peers \ DOMAIN cl'[a].peers :
                 \E i \in 1..Len(cl'[a].ev) :
                     cl'[a].ev[i] = [e |-> "peerDisconnect", id |-> p]]_vars
    /\ \A a \in Clients :
           \A s \in IdsOfOthers(a) :
               (s \in DOMAIN cl[a].peers /\ Gone(s)) ~> (s \notin DOMAIN cl[a].peers)

\* C12: when B's signaling socket drops, A receives no room event (user_left
\* or user_disconnected) about B, and A nevertheless observes
\* peerDisconnect(B) because B closes all of its direct links.
DropIsNoRoomEvent ==
    /\ [][\A a \in Clients :
             (cl'[a].op \in {"user_left", "user_disconnected"}
                  /\ cl'[a].arg \in IdsOfOthers(a))
                 => ~Gone(cl'[a].arg)]_vars
    /\ DropClosesLinks

Newest(buf) == buf[Len(buf)].timestamp

\* C14: an inbound player state older than the newest timestamp stored for
\* the player is discarded: the buffer does not take it, so the accepted
\* timestamps are non-decreasing in arrival order.
StaleSampleDiscarded ==
    [][(c'.op = "handlePlayerUpdate"
            /\ BufferOf(c, RemotePlayer) # <<>>
            /\ c'.arg.timestamp < Newest(BufferOf(c, RemotePlayer)))
        => \A i \in 1..Len(BufferOf(c', RemotePlayer)) :
               BufferOf(c', RemotePlayer)[i] # c'.arg]_vars

\* C15: an interpolation buffer never holds two entries with the same
\* timestamp.
NoTwoEntriesAtOneTimestamp ==
    \A p \in DOMAIN c.interpolationBuffer :
        \A i, j \in 1..Len(c.interpolationBuffer[p]) :
            i # j => c.interpolationBuffer[p][i].timestamp
                         # c.interpolationBuffer[p][j].timestamp

RLeq(a, b) == ~RLess(b, a)
Between(a, x, b) == (RLeq(a, x) /\ RLeq(x, b)) \/ (RLeq(b, x) /\ RLeq(x, a))

\* indexes i such that samples i and i+1 of buf bracket the time t
Brackets(buf, t) ==
    {i \in 1..(Len(buf) - 1) : buf[i].timestamp <= t /\ t < buf[i + 1].timestamp}

\* C16: for a remote player with two buffered samples or more, update()
\* uses a factor within [0, 1] and writes a position of which every
\* component lies between the components of the two samples that bracket
\* the render time now - interpolationDelay; without a bracket the position
\* is the one of a buffered sample.  Nothing is extrapolated.
InterpolatesWithinBracket ==
    [][(c'.op = "update" /\ c.localPlayerId # Null)
        => \A p \in DOMAIN c.interpolationBuffer \ {c.localPlayerId} :
               LET buf == c.interpolationBuffer[p]
                   t == c.now - c.interpolationDelay
                   st == c'.playerStates[p]
               IN  Len(buf) >= 2 =>
                     IF Brackets(buf, t) # {}
                     THEN \E i \in Brackets(buf, t) :
                            /\ RLeq(R(0), FactorOf(buf[i], buf[i + 1], t))
                            /\ RLeq(FactorOf(buf[i], buf[i + 1], t), R(1))
                            /\ \A j \in 1..3 :
                                   Between(buf[i].position[j], st.position[j],
                                           buf[i + 1].position[j])
                     ELSE \E i \in 1..Len(buf) : st.position = buf[i].position]_vars

\* update() has just written a position strictly inside a bracket of two
\* samples with different positions
InterpolatedInside ==
    /\ c.op = "update"
    /\ RemotePlayer \in DOMAIN c.playerStates
    /\ LET buf == BufferOf(c, RemotePlayer)
           t == c.now - c.interpolationDelay
           x == c.playerStates[RemotePlayer].position[1]
       IN  \E i \in Brackets(buf, t) :
               \/ RLess(buf[i].position[1], x) /\ RLess(x, buf[i + 1].position[1])
               \/ RLess(buf[i + 1].position[1], x) /\ RLess(x, buf[i].position[1])

\* C17: after update(), the state reported for a remote player whose buffer
\* holds fewer than two samples is the latest sample received for that
\* player, unchanged.
FewSamplesReportLatest ==
    [][c'.op = "update"
        => \A p \in DOMAIN c'.playerStates \ {c'.localPlayerId} :
               (Len(BufferOf(c', p)) < 2 /\ g.latest # <<>>)
                   => c'.playerStates[p] = g.latest[1]]_vars

\* C18: slerpQuaternions(q, -q, t) is the quaternion slerpQuaternions(q, q, t),
\* for every q and every t in [0, 1].
NegatedSlerpsAlike ==
    (c.same # <<>> /\ c.negated # <<>>) => c.negated = c.same

\* both results are there for a unit quaternion (linear branch) and a
\* factor inside (0, 1)
SlerpedBothLinear ==
    /\ c.same # <<>> /\ c.negated # <<>>
    /\ c.q = <<Rat(1, 2), Rat(-1, 2), Rat(1, 2), Rat(1, 2)>>
    /\ c.t = Rat(1, 4)
    /\ c.same[1] = c.q

\* ---------------------------------------------------- outbound claims
\* C19: with an update rate of R per second, at most R player-state
\* messages leave in any window of one second, however often state is
\* pushed and whatever else happens (a peer connecting, for one).
AtMostRatePerSecond ==
    Len(SendsWithin(c, g.sends)) * c.updateRate <= Window

\* C20: a state update that leaves carries, besides the id, only fields of
\* which the value differs from the value sent last, and a push that changes
\* no field sends nothing.
OnlyChangedFieldsSent ==
    /\ [][(c'.op = "updatePlayerState" /\ g.last # <<>>)
        => \A i \in 1..Len(c'.out) :
               LET d == c'.out[i].data
                   fs == (DOMAIN d \cap DOMAIN g.last[1]) \ {"id"}
               IN  /\ \E f \in fs \ {"timestamp"} : d[f] # g.last[1][f]
                   /\ \A f \in fs : d[f] # g.last[1][f]]_vars
    /\ [][cl'.op = "updateAndBroadcastPlayerState"
            => /\ \A i \in 1..Len(cl'.out) :
                      LET d == cl'.out[i].data
                      IN  \A f \in (DOMAIN d \cap DOMAIN g.bcast) : d[f] # g.bcast[f]
               /\ (cl.localPlayerId # Null
                      /\ \A f \in DOMAIN cl'.arg : cl'.arg[f] = cl.players[cl.localPlayerId][f])
                     => cl'.out = <<>>]_vars

\* ------------------------------------------------------- route claims
OpenLink(k, m) == m \in DOMAIN k.connections /\ k.connections[m].open

\* C21: in HYBRID mode a state update that is sent goes over the direct
\* link to every member with an open link and through the relay for every
\* member without one: every member is sent the update.
HybridReachesEveryMember ==
    [][(c'.op = "updatePlayerState" /\ c.mode = "HYBRID" /\ c'.out # <<>>)
        => \A m \in g.members :
               \E i \in 1..Len(c'.out) :
                   IF OpenLink(c, m)
                   THEN c'.out[i].via = "direct" /\ m \in c'.out[i].to
                   ELSE c'.out[i].via = "relay"]_vars

\* C22: in SIGNALING_ONLY mode every outbound player state and message goes
\* through SignalingClient.broadcast, none over a direct connection.
SignalingOnlyUsesRelay ==
    [][c'.mode = "SIGNALING_ONLY"
        => \A i \in 1..Len(c'.out) :
               c'.out[i].type \in {"player_update", "message"} => c'.out[i].via = "relay"]_vars

\* a state update left in SIGNALING_ONLY mode although a peer client exists
\* (HYBRID fell back)
RelayedAfterFallback ==
    /\ c.mode = "SIGNALING_ONLY" /\ c.peerClient
    /\ c.op = "updatePlayerState"
    /\ c.out # <<>>

\* ------------------------------------------------- the store's claims
\* C23: a connect(roomId) attempt that has not completed its room join
\* within 15 s is abandoned: the PeerManager is disconnected and dropped,
\* isConnecting is false and a connection error is reported.
JoinTimesOut ==
    cl.elapsed > CONNECTION_TIMEOUT
        => \/ cl.pm = "joined"
           \/ (cl.pm = "disconnect" /\ ~cl.peerManager /\ ~cl.isConnecting
                  /\ cl.connectionError # Null)

\* ------------------------------------------------- claims about the links
\* the wire of link l grew in this step
Grew(l) == l \in DOMAIN c'.links /\ Len(c'.links[l].wire) > Len(c.links[l].wire)

MalformedDataDropped ==
    [][(c'.op = "peer_data" /\ ~Parses(c'.arg)) =>
        /\ c'.ev = <<>>
        /\ c'.peers = c.peers
        /\ c'.links = c.links]_vars

MalformedArrived ==
    /\ c.op = "peer_data" /\ c.arg = Malformed
    /\ \E l \in DOMAIN c.links : c.links[l].conn /\ c.links[l].st = "live"

\* every link other than l, and every map entry other than that of p, is as
\* it was before the step
OthersUntouched(l, p) ==
    /\ \A m \in DOMAIN c.links \ {l} : m \in DOMAIN c'.links /\ c'.links[m] = c.links[m]
    /\ \A q \in DOMAIN c.peers \ {p} : q \in DOMAIN c'.peers /\ c'.peers[q] = c.peers[q]

\* C27: a transport error of one link closes that link and removes its peer
\* from the link map (with its 'close' event, which a build may defer to the
\* microtask that follows), and no other link or map entry changes.
ErrorClosesOnlyThatLink ==
    [][/\ c'.op = "peer_error" =>
            LET l == c'.arg
                p == c.links[l].peer
            IN  /\ IF syncClose
                   THEN l \notin DOMAIN c'.links /\ p \notin DOMAIN c'.peers
                   ELSE c'.links[l].st = "destroying"
                /\ OthersUntouched(l, p)
       /\ c'.op = "peer_close" =>
            \E l \in DOMAIN c.links :
                /\ c.links[l].st = "destroying" /\ c.links[l].peer = c'.arg
                /\ l \notin DOMAIN c'.links /\ c'.arg \notin DOMAIN c'.peers
                /\ OthersUntouched(l, c'.arg)]_vars

\* a link failed while another link was connected
ErrorBesideConnected ==
    /\ c.op = "peer_error"
    /\ \E m \in DOMAIN c.links :
          m # c.arg /\ c.links[m].conn /\ c.links[m].st = "live"

\* events of kind e that the step emitted for peer p
EventsFor(k, e, p) == {i \in 1..Len(k.ev) : k.ev[i].e = e /\ k.ev[i].id = p}

\* C28: a link closes at most once however often its close is requested: a
\* step emits peerDisconnect for a link exactly once when the link leaves the
\* map and never otherwise, a link being destroyed never becomes live again,
\* and peerConnect and data are emitted only for links that are and stay live.
ClosesOnce ==
    [][/\ \A l \in DOMAIN c.links :
            LET p == c.links[l].peer
            IN  /\ Cardinality(EventsFor(c', "peerDisconnect", p)) =
                       IF l \in DOMAIN c'.links THEN 0 ELSE 1
                /\ (c.links[l].st = "destroying" /\ l \in DOMAIN c'.links)
                       => c'.links[l].st = "destroying"
                /\ (EventsFor(c', "peerConnect", p) \cup EventsFor(c', "data", p)) # {}
                       => /\ c.links[l].st = "live"
                          /\ l \in DOMAIN c'.links /\ c'.links[l].st = "live"
       /\ \A i \in 1..Len(c'.ev) :
            c'.ev[i].e \in {"peerDisconnect", "peerConnect", "data"}
                => \E l \in DOMAIN c.links : c.links[l].peer = c'.ev[i].id]_vars

\* disconnect() asked a link to close in leaveRoom and again in the
\* disconnect listener
ClosedTwiceOver ==
    /\ c.op = "PM.disconnect"
    /\ \E i \in 1..Len(c.ev) : c.ev[i].e = "clientDisconnected"
    /\ \/ \E l \in DOMAIN c.links : c.links[l].st = "destroying"
       \/ \E p \in RemoteIds : Cardinality(EventsFor(c, "peerDisconnect", p)) = 1

\* ---------------------------------------------- claims about the rooms
\* the ids the room table lists for r
Listed(r) == IF r \in DOMAIN srv.rooms
             THEN {srv.rooms[r][i] : i \in 1..Len(srv.rooms[r])} ELSE {}

\* C29: the room table has an entry for a room exactly while the room has a
\* member, that is a connected socket that joined it and has not left it.
RoomEntryIffMember ==
    \A r \in Rooms : r \in DOMAIN srv.rooms <=> srv.sio[r] # {}

\* C30: a connected client is a member of at most one room: after any
\* sequence of join_room, leave_room and disconnect no socket id is in the
\* member lists of two rooms of the server.
OneRoomPerClient ==
    \A r1, r2 \in Rooms : r1 # r2 => Listed(r1) \cap Listed(r2) = {}

\* C40: every id in the member list of a room is a connected socket whose
\* recorded room is that room, after any sequence of join_room, leave_room
\* (with or without a room id) and disconnect.
ListedAreCurrentMembers ==
    \A r \in Rooms : \A s \in Listed(r) :
        s \in DOMAIN srv.users /\ srv.users[s].room = r

\* ------------------------------------------ claims about the signal relay
\* C31: a signal of socket S with target T is delivered to T only, tagged
\* with the id of S and with the payload unchanged, and to nobody when T is
\* not a connected socket.
SignalReachesTargetOnly ==
    g.op = "signal" =>
        g.sent = IF cl[g.msg.target] = "open"
                 THEN {<<g.msg.target,
                         [t |-> "signal", id |-> g.id, signal |-> g.msg.signal]>>}
                 ELSE {}

\* ------------------------------------- claims about the signaling client
\* C32: connect() on a client that is connected, connecting or waiting on a
\* backoff timer leaves reconnectAttempts, isReconnecting and the pending
\* reconnect timer as they were.
ConnectIsIdempotent ==
    [][(/\ c'.op = "SC.connect"
        /\ c.connected \/ c.mgr = "connecting" \/ c.reconnectTimer \in DOMAIN c.timers)
        => /\ c'.reconnectAttempts = c.reconnectAttempts
           /\ c'.isReconnecting = c.isReconnecting
           /\ c'.reconnectTimer = c.reconnectTimer
           /\ c'.timers = c.timers]_vars

\* the links the step created
NewLinks == DOMAIN c'.links \ DOMAIN c.links

Entries(q) == {q[i] : i \in 1..Len(q)}

\* C35: after an inbound player update the buffer of that player is in
\* non-decreasing timestamp order and holds exactly the samples, old and
\* new, that are less than 10 s older than the receiver's clock.
BufferSortedAndFresh ==
    [][c'.op = "handlePlayerUpdate" =>
        LET buf == BufferOf(c', RemotePlayer)
            had == Entries(BufferOf(c, RemotePlayer)) \cup {c'.arg}
        IN  /\ \A i, j \in 1..Len(buf) : i < j => buf[i].timestamp <= buf[j].timestamp
            /\ Entries(buf) = {s \in had : c'.now - s.timestamp < bufferWindow}]_vars

\* a sample that arrived late was put before a newer one
LateSampleSortedIn ==
    /\ c.op = "handlePlayerUpdate"
    /\ LET buf == BufferOf(c, RemotePlayer)
       IN  /\ Len(buf) >= 2
           /\ c.arg.timestamp < buf[Len(buf)].timestamp

\* --------------------------------------------- claims about the fallback
\* the step reported e
Reported(k, e) == \E i \in 1..Len(k.ev) : k.ev[i].e = e

QuietAfterDisconnect ==
    [][/\ c'.op = "SC.disconnect" =>
            /\ c'.reconnectTimer = NoTimer /\ DOMAIN c'.timers = {}
            /\ c'.mgr = "closed"
       /\ (c.mgr = "closed" /\ DOMAIN c.timers = {} /\ c'.op # "SC.connect") =>
            /\ c'.mgr = "closed" /\ DOMAIN c'.timers = {}]_vars

\* ---------------------------------------- claims about the game store
\* messages of type t the step sent to the server
SentOf(k, t) == {i \in 1..Len(k.out) : k.out[i].t = t}

\* C38: when the signaling connection comes back while the store's
\* PeerManager is in a room, the client sends exactly one join_room, for that
\* room, and no leave_room.
RejoinSendsOneJoin ==
    [][(c'.op = "connect" /\ c.roomId # Null) =>
        /\ Cardinality(SentOf(c', "join_room")) = 1
        /\ SentOf(c', "leave_room") = {}
        /\ \A i \in SentOf(c', "join_room") : c'.out[i].room = c.roomId]_vars

\* C39: the store has at most one PeerManager that is not closed, and the
\* store's listeners run only for events of the PeerManager created last
OneActiveManager ==
    /\ Cardinality(Active(net)) <= 1
    /\ g.by # 0 => g.by = Len(net)

====
